---- MODULE Spec2Model ----
(***************************************************************************)
(* skycam: Camera (skycam_common/camera.py).                               *)
(*                                                                         *)
(* Numbers that are floats in the source (exposure seconds, f-numbers,     *)
(* delay seconds) are modelled in tenths: 8.0 is 80, 1.4 is 14, 0.5 is 5.  *)
(* None is the string "None"; exceptions are named by their class.         *)
(***************************************************************************)
EXTENDS Integers, Sequences, FiniteSets, TLC

VARIABLES device, port, camera, connected, capabilities, store, last

vars == <<device, port, camera, connected, capabilities, store, last>>

(***************************************************************************)
(* Bounds of the model.                                                    *)
(***************************************************************************)
\* a device lists at most MaxChoices parseable choices per axis
MaxChoices == 2

\* the values a device lists are 10, 20, .., 10 * MaxVal (tenths)
MaxVal == 3

None == "None"

\* None where the attribute otherwise holds an object (a record)
NoneObj == [none |-> TRUE]

(***************************************************************************)
(* Helpers for Python built-ins.                                           *)
(***************************************************************************)
Range(s) == {s[i] : i \in 1..Len(s)}

Abs(x) == IF x < 0 THEN -x ELSE x

\* x in list
In(x, s) == \E i \in 1..Len(s) : s[i] = x

\* sorted(list): ascending insertion sort
RECURSIVE Insert(_, _)
Insert(x, s) ==
    IF s = <<>> THEN <<x>>
    ELSE IF x < Head(s) THEN <<x>> \o s
    ELSE <<Head(s)>> \o Insert(x, Tail(s))

\* a variant that keeps the order in which the device lists the values
Unsorted(s) == s

RECURSIVE sorted(_)
sorted(s) == IF s = <<>> THEN <<>> ELSE Insert(Head(s), sorted(Tail(s)))

\* min(list, key=lambda x: abs(x - v)) for a non-empty list: Python keeps the
\* first element whose key is strictly smaller than the best seen so far
RECURSIVE MinScan(_, _, _)
MinScan(s, v, best) ==
    IF s = <<>> THEN best
    ELSE IF Abs(Head(s) - v) < Abs(best - v) THEN MinScan(Tail(s), v, Head(s))
    ELSE MinScan(Tail(s), v, best)

MinFirst(s, v) == MinScan(Tail(s), v, Head(s))

\* a variant that takes the first legal value whatever its distance
ClosestHead(s, v) == s[1]

\* min(list, key=lambda x: abs(x - v))
closest_to(s, v) == MinFirst(s, v)

(***************************************************************************)
(* Data classes.                                                           *)
(***************************************************************************)
\* CameraSettings(...)
CameraSettings(e, a, i, d, q, m) ==
    [exposure |-> e, aperture |-> a, iso |-> i, delay |-> d, quality |-> q,
     max_exposures |-> m]

\* CameraSettings() with the dataclass defaults
DefaultSettings == CameraSettings(80, 14, "auto", 120, "raw", 0)

\* CameraCapabilities(...)
CameraCapabilities(e, a, i) ==
    [exposure_times |-> e, apertures |-> a, iso_values |-> i]

DefaultExposureTimes == <<5, 10, 20, 40, 80, 150, 300>>
DefaultApertures == <<14, 20, 28, 40, 56, 80, 110, 160>>
DefaultIsoValues == <<"auto", "100", "200", "400", "800", "1600", "3200", "6400">>

(***************************************************************************)
(* The device (gphoto2 binding): what each configuration widget lists.     *)
(* A shutterspeed / f-number choice is a record [kind, v]:                 *)
(*   "empty"  None or ""            "bare"  "<v>"    (no marker)           *)
(*   "sec"    "<v>s"                "fnum"  "f/<v>"                        *)
(*   "frac"   "1/<v>s"  ('s' present, float() fails)                       *)
(*   "fword"  "f/auto"  ('f/' present, float() fails)                      *)
(* An iso choice is its label, "" for an empty one.  A report is           *)
(* [ok, choices]; ok = FALSE is get_config raising.                        *)
(***************************************************************************)
Choice(k, v) == [kind |-> k, v |-> v]

Report(ok, cs) == [ok |-> ok, choices |-> cs]

Unsupported == Report(FALSE, <<>>)

DeviceValues == {10 * i : i \in 1..MaxVal}

ValueSets == {S \in SUBSET DeviceValues : Cardinality(S) <= MaxChoices}

SetMax(S) == CHOOSE m \in S : \A x \in S : x <= m

\* the values of S listed from the largest to the smallest
RECURSIVE Descending(_)
Descending(S) ==
    IF S = {} THEN <<>> ELSE <<SetMax(S)>> \o Descending(S \ {SetMax(S)})

Listing(k, S) == [i \in 1..Cardinality(S) |-> Choice(k, Descending(S)[i])]

ShutterspeedReports ==
    {Unsupported}
    \cup {Report(TRUE, Listing("sec", S)) : S \in ValueSets}
    \cup {Report(TRUE, <<Choice("empty", 0), Choice("bare", 10)>>),
          Report(TRUE, <<Choice("sec", 10), Choice("frac", 30)>>)}

FNumberReports ==
    {Unsupported}
    \cup {Report(TRUE, Listing("fnum", S)) : S \in ValueSets}
    \cup {Report(TRUE, <<Choice("empty", 0), Choice("bare", 10)>>),
          Report(TRUE, <<Choice("fnum", 10), Choice("fword", 0)>>)}

IsoReports ==
    {Unsupported, Report(TRUE, <<>>), Report(TRUE, <<"100", "200">>),
     Report(TRUE, <<"auto", "100">>), Report(TRUE, <<"", "200">>)}

Devices ==
    [shutterspeed : ShutterspeedReports, fnumber : FNumberReports, iso : IsoReports]

Port == "usb:001,004"

(***************************************************************************)
(* Camera._query_capabilities                                              *)
(***************************************************************************)
\* one pass of the exposure loop body: skip, append a value, or raise
ParseShutterspeed(c) ==
    IF c.kind = "empty" THEN [act |-> "skip", v |-> 0]
    ELSE IF c.kind \in {"sec", "frac"}
         THEN IF c.kind = "sec" THEN [act |-> "append", v |-> c.v]
              ELSE [act |-> "raise", v |-> 0]
    ELSE [act |-> "skip", v |-> 0]

\* one pass of the aperture loop body
ParseFNumber(c) ==
    IF c.kind = "empty" THEN [act |-> "skip", v |-> 0]
    ELSE IF c.kind \in {"fnum", "fword"}
         THEN IF c.kind = "fnum" THEN [act |-> "append", v |-> c.v]
              ELSE [act |-> "raise", v |-> 0]
    ELSE [act |-> "skip", v |-> 0]

\* one pass of the iso loop body
ParseIso(c) ==
    IF c = "" THEN [act |-> "skip", v |-> c] ELSE [act |-> "append", v |-> c]

\* the loop body of the axis read from this widget
ParseChoice(widget, c) ==
    CASE widget = "shutterspeed" -> ParseShutterspeed(c)
      [] widget = "f-number" -> ParseFNumber(c)
      [] widget = "iso" -> ParseIso(c)

\* the for loop over the choices: the list appended so far, or "raise"
RECURSIVE ReadChoices(_, _, _)
ReadChoices(cs, widget, acc) ==
    IF cs = <<>> THEN [raised |-> FALSE, values |-> acc]
    ELSE LET r == ParseChoice(widget, Head(cs)) IN
         IF r.act = "raise" THEN [raised |-> TRUE, values |-> acc]
         ELSE IF r.act = "append"
              THEN ReadChoices(Tail(cs), widget, Append(acc, r.v))
              ELSE ReadChoices(Tail(cs), widget, acc)

\* try: read the axis  except Exception: the default list
QueryAxis(report, widget, default) ==
    IF ~report.ok THEN default
    ELSE LET r == ReadChoices(report.choices, widget, <<>>) IN
         IF r.raised THEN default ELSE r.values

\* a variant in which one failing axis sends every axis to its default list
query_all_or_nothing(dev) ==
    IF \/ QueryAxis(dev.shutterspeed, "shutterspeed", <<>>) = <<>>
       \/ QueryAxis(dev.fnumber, "f-number", <<>>) = <<>>
       \/ QueryAxis(dev.iso, "iso", <<>>) = <<>>
    THEN CameraCapabilities(DefaultExposureTimes, DefaultApertures, DefaultIsoValues)
    ELSE CameraCapabilities(
             sorted(QueryAxis(dev.shutterspeed, "shutterspeed", DefaultExposureTimes)),
             sorted(QueryAxis(dev.fnumber, "f-number", DefaultApertures)),
             QueryAxis(dev.iso, "iso", DefaultIsoValues))

query_capabilities(dev) ==
    CameraCapabilities(
        sorted(QueryAxis(dev.shutterspeed, "shutterspeed", DefaultExposureTimes)),
        sorted(QueryAxis(dev.fnumber, "f-number", DefaultApertures)),
        QueryAxis(dev.iso, "iso", DefaultIsoValues))

(***************************************************************************)
(* Camera.validate_settings                                                *)
(***************************************************************************)
Warning(axis, from, to) == [axis |-> axis, from |-> from, to |-> to]

\* a variant that leaves iso out of the copy, so that it takes its default
CopyWithoutIso(settings) ==
    [alias |-> FALSE,
     obj |-> CameraSettings(settings.exposure, settings.aperture, "auto",
                            settings.delay, settings.quality, settings.max_exposures)]

\* a variant that adjusts the caller's object in place (validated = settings)
AliasValidated(settings) == [alias |-> TRUE, obj |-> settings]

\* validated = CameraSettings(exposure=settings.exposure, ...): a new object
\* (alias = FALSE) holding a copy of every field
NewValidated(settings) ==
    [alias |-> FALSE,
     obj |-> CameraSettings(settings.exposure, settings.aperture, settings.iso,
                            settings.delay, settings.quality, settings.max_exposures)]

\* a variant that warns but does not store the closest value
AdjustAxisKeep(legal, v) ==
    IF In(v, legal) THEN [raised |-> None, value |-> v, warn |-> FALSE]
    ELSE IF legal = <<>> THEN [raised |-> "ValueError", value |-> v, warn |-> FALSE]
    ELSE [raised |-> None, value |-> v, warn |-> closest_to(legal, v) # v]

\* the exposure / aperture block: the value kept or substituted, whether a
\* warning is appended, or ValueError from min() of an empty list
AdjustAxis(legal, v) ==
    IF In(v, legal) THEN [raised |-> None, value |-> v, warn |-> FALSE]
    ELSE IF legal = <<>> THEN [raised |-> "ValueError", value |-> v, warn |-> FALSE]
    ELSE LET closest == closest_to(legal, v) IN
         IF closest # v THEN [raised |-> None, value |-> closest, warn |-> TRUE]
         ELSE [raised |-> None, value |-> v, warn |-> FALSE]

\* the iso block: is the "may not be supported" warning appended
IsoWarns(iso, iso_values) == ~In(iso, iso_values)

\* what the caller observes: the exception raised (or None), the object
\* returned, whether it is the very object passed in, the state of the object
\* passed in after the call, and the warnings
Outcome(raised, validated, same, arg, warnings) ==
    [raised |-> raised, validated |-> validated, same |-> same, arg |-> arg,
     warnings |-> warnings]

\* the body below the capabilities guard
reconcile(caps, settings) ==
    LET v0 == NewValidated(settings)
        e  == AdjustAxis(caps.exposure_times, v0.obj.exposure)
        w1 == IF e.warn THEN <<Warning("exposure", v0.obj.exposure, e.value)>> ELSE <<>>
        v1 == [v0.obj EXCEPT !.exposure = e.value]
        a  == AdjustAxis(caps.apertures, v1.aperture)
        w2 == IF a.warn THEN Append(w1, Warning("aperture", v1.aperture, a.value)) ELSE w1
        v2 == [v1 EXCEPT !.aperture = a.value]
        w3 == IF IsoWarns(v2.iso, caps.iso_values)
              THEN Append(w2, Warning("iso", v2.iso, v2.iso)) ELSE w2
    IN  IF e.raised # None
        THEN Outcome(e.raised, NoneObj, FALSE, IF v0.alias THEN v0.obj ELSE settings, <<>>)
        ELSE IF a.raised # None
        THEN Outcome(a.raised, NoneObj, FALSE, IF v0.alias THEN v1 ELSE settings, <<>>)
        ELSE Outcome(None, v2, v0.alias, IF v0.alias THEN v2 ELSE settings, w3)

\* a variant without the guard, reconciling against the default lists
validate_unguarded(caps, settings) ==
    reconcile(IF caps = NoneObj
              THEN CameraCapabilities(DefaultExposureTimes, DefaultApertures,
                                      DefaultIsoValues)
              ELSE caps, settings)

validate_settings(caps, settings) ==
    IF caps = NoneObj THEN Outcome(None, settings, TRUE, settings, <<>>)
    ELSE reconcile(caps, settings)

(***************************************************************************)
(* Exceptions: the class hierarchy and Camera.connect's except clauses.    *)
(***************************************************************************)
Exc(cls, code) == [cls |-> cls, code |-> code]

NoExc == Exc(None, None)

\* the base class of each exception class
Base(cls) ==
    CASE cls = "CameraNotFoundError" -> "CameraError"
      [] cls = "CameraConnectionError" -> "CameraError"
      [] cls = "CameraError" -> "Exception"
      [] cls = "GPhoto2Error" -> "Exception"
      [] cls = "ValueError" -> "Exception"
      [] OTHER -> None

RECURSIVE IsInstance(_, _)
IsInstance(cls, of) ==
    IF cls = None THEN FALSE
    ELSE IF cls = of THEN TRUE
    ELSE IsInstance(Base(cls), of)

\* except gp.GPhoto2Error as e: ...  except Exception as e: ...
connect_except(e) ==
    IF IsInstance(e.cls, "GPhoto2Error")
    THEN IF e.code = "GP_ERROR_MODEL_NOT_FOUND" THEN "CameraNotFoundError"
         ELSE "CameraConnectionError"
    ELSE IF IsInstance(e.cls, "Exception") THEN "CameraConnectionError"
    ELSE e.cls

(***************************************************************************)
(* Camera.connect                                                          *)
(***************************************************************************)
\* gp.camera.Camera.autodetect(): None, [], [(Port, name)], or GPhoto2Error
DetectOutcomes == {"None", "empty", "found", "GP_ERROR_IO"}

\* self.camera.init(): returns, or raises GPhoto2Error with this code
InitOutcomes == {"ok", "GP_ERROR_MODEL_NOT_FOUND", "GP_ERROR_IO"}

NotReached == "n/a"

Attrs(p, cam, conn, queried, e, detect, init) ==
    [port |-> p, camera |-> cam, connected |-> conn, queried |-> queried,
     exc |-> e, detect |-> detect, init |-> init]

\* a variant that returns after init() without querying the capabilities
connect_try_unqueried(p, cam, conn, auto_detect, detect, init) ==
    LET probing == auto_detect /\ p = None
        p1 == IF probing /\ detect = "found" THEN Port ELSE p
    IN  IF probing /\ detect = "GP_ERROR_IO"
        THEN Attrs(p, cam, conn, FALSE, Exc("GPhoto2Error", detect), detect, NotReached)
        ELSE IF probing /\ detect \in {"None", "empty"}
        THEN Attrs(p, cam, conn, FALSE, Exc("CameraNotFoundError", None), detect,
                   NotReached)
        ELSE LET d == IF probing THEN detect ELSE NotReached IN
             IF p1 # None
             THEN IF init = "ok"
                  THEN Attrs(p1, "initialised", TRUE, FALSE, NoExc, d, init)
                  ELSE Attrs(p1, "created", conn, FALSE, Exc("GPhoto2Error", init),
                             d, init)
             ELSE Attrs(p1, "created", conn, FALSE, Exc("CameraConnectionError", None),
                        d, NotReached)

\* a variant that sets connected before init() is called
connect_try_eager(p, cam, conn, auto_detect, detect, init) ==
    LET probing == auto_detect /\ p = None
        p1 == IF probing /\ detect = "found" THEN Port ELSE p
    IN  IF probing /\ detect = "GP_ERROR_IO"
        THEN Attrs(p, cam, conn, FALSE, Exc("GPhoto2Error", detect), detect, NotReached)
        ELSE IF probing /\ detect \in {"None", "empty"}
        THEN Attrs(p, cam, conn, FALSE, Exc("CameraNotFoundError", None), detect,
                   NotReached)
        ELSE LET d == IF probing THEN detect ELSE NotReached IN
             IF p1 # None
             THEN IF init = "ok"
                  THEN Attrs(p1, "initialised", TRUE, TRUE, NoExc, d, init)
                  ELSE Attrs(p1, "created", TRUE, FALSE, Exc("GPhoto2Error", init),
                             d, init)
             ELSE Attrs(p1, "created", conn, FALSE, Exc("CameraConnectionError", None),
                        d, NotReached)

\* the try block: the attributes when it is left, whether it reached
\* self._query_capabilities(), the exception that left it (NoExc on normal
\* completion) and the outcomes of the device calls it reached
connect_try(p, cam, conn, auto_detect, detect, init) ==
    LET probing == auto_detect /\ p = None
        p1 == IF probing /\ detect = "found" THEN Port ELSE p
    IN  IF probing /\ detect = "GP_ERROR_IO"
        THEN Attrs(p, cam, conn, FALSE, Exc("GPhoto2Error", detect), detect, NotReached)
        ELSE IF probing /\ detect \in {"None", "empty"}
        THEN Attrs(p, cam, conn, FALSE, Exc("CameraNotFoundError", None), detect,
                   NotReached)
        ELSE LET d == IF probing THEN detect ELSE NotReached IN
             IF p1 # None
             THEN IF init = "ok"
                  THEN Attrs(p1, "initialised", TRUE, TRUE, NoExc, d, init)
                  ELSE Attrs(p1, "created", conn, FALSE, Exc("GPhoto2Error", init),
                             d, init)
             ELSE Attrs(p1, "created", conn, FALSE, Exc("CameraConnectionError", None),
                        d, NotReached)

\* detect and init are the outcomes the device calls of the try block have
\* when it reaches them; last records NotReached for a call it does not make
Connect(auto_detect, detect, init) ==
    LET r == connect_try(port, camera, connected, auto_detect, detect, init)
    IN  /\ port' = r.port
        /\ camera' = r.camera
        /\ connected' = r.connected
        /\ capabilities' = IF r.queried THEN query_capabilities(device) ELSE capabilities
        /\ last' = [op |-> "connect", auto_detect |-> auto_detect,
                    port |-> port, detect |-> r.detect, init |-> r.init,
                    raised |-> IF r.exc = NoExc THEN None ELSE connect_except(r.exc)]
        /\ UNCHANGED <<device, store>>

(***************************************************************************)
(* Camera.disconnect                                                       *)
(***************************************************************************)
\* self.camera.exit(): returns or raises
ExitOutcomes == {"ok", "raise"}

\* a variant that drops the handle without calling exit()
disconnect_dropped(cam, conn, exit) ==
    [camera |-> None, connected |-> FALSE, exit |-> NotReached]

\* the attributes after disconnect() and whether self.camera.exit() was called
disconnect(cam, conn, exit) ==
    IF cam # None /\ conn
    THEN [camera |-> None, connected |-> IF exit = "ok" THEN FALSE ELSE conn,
          exit |-> exit]
    ELSE [camera |-> cam, connected |-> conn, exit |-> NotReached]

\* exit is the outcome self.camera.exit() has when it is called; last records
\* NotReached when it is not
Disconnect(exit) ==
    LET r == disconnect(camera, connected, exit)
    IN  /\ camera' = r.camera
        /\ connected' = r.connected
        /\ last' = [op |-> "disconnect", exit |-> r.exit]
        /\ UNCHANGED <<device, port, capabilities, store>>

(***************************************************************************)
(* Camera.configure_camera                                                 *)
(***************************************************************************)
Widgets == {"shutterspeed", "f-number", "iso", "imagequality"}

\* closest_diff = float('inf')
Infinity == -1

\* the for loop over the choices of the exposure / aperture widget: i is the
\* 0-based index of Head(cs); the closest_idx found, or "raise" from float()
RECURSIVE ClosestIdxScan(_, _, _, _, _, _)
ClosestIdxScan(cs, widget, v, i, closest_idx, closest_diff) ==
    IF cs = <<>> THEN [raised |-> FALSE, idx |-> closest_idx]
    ELSE LET r == ParseChoice(widget, Head(cs)) IN
         IF r.act = "raise" THEN [raised |-> TRUE, idx |-> closest_idx]
         ELSE IF r.act = "append"
                 /\ (closest_diff = Infinity \/ Abs(r.v - v) < closest_diff)
              THEN ClosestIdxScan(Tail(cs), widget, v, i + 1, i, Abs(r.v - v))
              ELSE ClosestIdxScan(Tail(cs), widget, v, i + 1, closest_idx, closest_diff)

NotSet == -1

\* one try block of the exposure / aperture kind: the index given to
\* set_value (NotSet when the block is left by an exception), whether the
\* except clause appends its warning, and whether set_value was reached
\* (rejects: the widgets whose set_value / set_config raises)
ConfigureClosest(cam, report, widget, v, rejects) ==
    IF cam = None \/ ~report.ok
    THEN [set |-> NotSet, warn |-> TRUE, reached |-> FALSE]
    ELSE LET r == ClosestIdxScan(report.choices, widget, v, 0, 0, Infinity) IN
         IF r.raised THEN [set |-> NotSet, warn |-> TRUE, reached |-> FALSE]
         ELSE IF widget \in rejects THEN [set |-> NotSet, warn |-> TRUE, reached |-> TRUE]
         ELSE [set |-> r.idx, warn |-> FALSE, reached |-> TRUE]

\* the ISO try block: nothing is done for "auto"
ConfigureIso(cam, report, iso, rejects) ==
    IF iso = "auto" THEN [set |-> None, warn |-> FALSE, reached |-> FALSE]
    ELSE IF cam = None \/ ~report.ok
    THEN [set |-> None, warn |-> TRUE, reached |-> FALSE]
    ELSE IF "iso" \in rejects THEN [set |-> None, warn |-> TRUE, reached |-> TRUE]
    ELSE [set |-> iso, warn |-> FALSE, reached |-> TRUE]

\* quality_config.set_value(7)
RawQuality == 7

\* the image quality try block
ConfigureQuality(cam, rejects) ==
    IF cam = None THEN [set |-> NotSet, warn |-> TRUE, reached |-> FALSE]
    ELSE IF "imagequality" \in rejects
    THEN [set |-> NotSet, warn |-> TRUE, reached |-> TRUE]
    ELSE [set |-> RawQuality, warn |-> FALSE, reached |-> TRUE]

WarnIf(b, w) == IF b THEN <<w>> ELSE <<>>

\* a variant with the four steps in one try block: the first failure skips
\* the steps after it
configure_one_try(conn, cam, dev, settings, rejects) ==
    IF ~conn
    THEN [raised |-> "CameraError", warnings |-> <<>>, reached |-> {},
          exposure |-> NotSet, aperture |-> NotSet, iso |-> None, quality |-> NotSet]
    ELSE
    LET e == ConfigureClosest(cam, dev.shutterspeed, "shutterspeed", settings.exposure,
                              rejects)
        a == ConfigureClosest(cam, dev.fnumber, "f-number", settings.aperture, rejects)
        i == ConfigureIso(cam, dev.iso, settings.iso, rejects)
        q == ConfigureQuality(cam, rejects)
        fa == e.warn
        fi == fa \/ a.warn
        fq == fi \/ i.warn
    IN  [raised |-> None,
         warnings |-> WarnIf(e.warn, "exposure") \o WarnIf(~fa /\ a.warn, "aperture")
                      \o WarnIf(~fi /\ i.warn, "ISO")
                      \o WarnIf(~fq /\ q.warn, "image quality"),
         reached |-> {w \in Widgets :
                         \/ w = "shutterspeed" /\ e.reached
                         \/ w = "f-number" /\ a.reached /\ ~fa
                         \/ w = "iso" /\ i.reached /\ ~fi
                         \/ w = "imagequality" /\ q.reached /\ ~fq},
         exposure |-> e.set,
         aperture |-> IF fa THEN NotSet ELSE a.set,
         iso |-> IF fi THEN None ELSE i.set,
         quality |-> IF fq THEN NotSet ELSE q.set]

\* a variant without the check of self.connected
configure_unguarded(conn, cam, dev, settings, rejects) ==
    LET e == ConfigureClosest(cam, dev.shutterspeed, "shutterspeed", settings.exposure,
                              rejects)
        a == ConfigureClosest(cam, dev.fnumber, "f-number", settings.aperture, rejects)
        i == ConfigureIso(cam, dev.iso, settings.iso, rejects)
        q == ConfigureQuality(cam, rejects)
    IN  [raised |-> None,
         warnings |-> WarnIf(e.warn, "exposure") \o WarnIf(a.warn, "aperture")
                      \o WarnIf(i.warn, "ISO") \o WarnIf(q.warn, "image quality"),
         reached |-> {w \in Widgets :
                         \/ w = "shutterspeed" /\ e.reached
                         \/ w = "f-number" /\ a.reached
                         \/ w = "iso" /\ i.reached
                         \/ w = "imagequality" /\ q.reached},
         exposure |-> e.set, aperture |-> a.set, iso |-> i.set, quality |-> q.set]

\* configure_camera(settings): the exception raised (or None), the warnings
\* returned, the widgets whose set_value was reached, and what each widget was
\* set to
configure_camera(conn, cam, dev, settings, rejects) ==
    IF ~conn
    THEN [raised |-> "CameraError", warnings |-> <<>>, reached |-> {},
          exposure |-> NotSet, aperture |-> NotSet, iso |-> None, quality |-> NotSet]
    ELSE
    LET e == ConfigureClosest(cam, dev.shutterspeed, "shutterspeed", settings.exposure,
                              rejects)
        a == ConfigureClosest(cam, dev.fnumber, "f-number", settings.aperture, rejects)
        i == ConfigureIso(cam, dev.iso, settings.iso, rejects)
        q == ConfigureQuality(cam, rejects)
    IN  [raised |-> None,
         warnings |-> WarnIf(e.warn, "exposure") \o WarnIf(a.warn, "aperture")
                      \o WarnIf(i.warn, "ISO") \o WarnIf(q.warn, "image quality"),
         reached |-> {w \in Widgets :
                         \/ w = "shutterspeed" /\ e.reached
                         \/ w = "f-number" /\ a.reached
                         \/ w = "iso" /\ i.reached
                         \/ w = "imagequality" /\ q.reached},
         exposure |-> e.set, aperture |-> a.set, iso |-> i.set, quality |-> q.set]

\* rejects names only widgets whose set_value the call reaches
ConfigureCamera(settings, rejects) ==
    LET r == configure_camera(connected, camera, device, settings, rejects)
    IN  /\ rejects \subseteq r.reached
        /\ last' = [op |-> "configure_camera", settings |-> settings,
                    rejects |-> rejects, out |-> r]
        /\ UNCHANGED <<device, port, camera, connected, capabilities, store>>

\* the settings configure_camera is given
ConfigureInputs == {DefaultSettings, CameraSettings(20, 20, "400", 120, "raw", 0)}

(***************************************************************************)
(* Camera.capture_single                                                   *)
(***************************************************************************)
CaptureResult(success, filename, filepath, error_message) ==
    [success |-> success, filename |-> filename, filepath |-> filepath,
     error_message |-> error_message]

\* what the device's camera_file answers to get_name() and get_filepath()
DeviceFile == [name |-> "capt0000.cr2", path |-> "/store_00010001/capt0000.cr2"]

\* the outcomes of camera.trigger_capture()
TriggerOutcomes == {"ok", "GP_ERROR_NOT_SUPPORTED"}

\* the outcomes of camera.capture(...) and of reading the camera_file;
\* AttributeError is the camera_file lacking get_filepath
CaptureOutcomes == {"ok", "GP_ERROR_IO", "AttributeError"}

\* f"Capture failed: {e}"
CaptureFailed(e) ==
    IF e = "GP_ERROR_IO" THEN "Capture failed: GP_ERROR_IO"
    ELSE "Capture failed: AttributeError"

\* a failure result that carries the filename argument
FailureResultNamed(filename, msg) == CaptureResult(FALSE, filename, None, msg)

\* CaptureResult(success=False, error_message=msg), built where the filename
\* argument is in scope
FailureResult(filename, msg) == CaptureResult(FALSE, None, None, msg)

SuccessResult(filename, filepath) == CaptureResult(TRUE, filename, filepath, None)

\* the body of the try block: the result and the device calls issued
capture_try(cam, filename, trigger, capture) ==
    IF cam = None
    THEN [result |-> FailureResult(filename, CaptureFailed("AttributeError")),
          calls |-> <<>>, trigger |-> NotReached, capture |-> NotReached]
    ELSE IF capture = "GP_ERROR_IO"
    THEN [result |-> FailureResult(filename, CaptureFailed(capture)),
          calls |-> <<"trigger_capture", "capture">>,
          trigger |-> trigger, capture |-> capture]
    ELSE IF capture = "AttributeError"
    THEN [result |-> FailureResult(filename, CaptureFailed(capture)),
          calls |-> <<"trigger_capture", "capture", "get_filepath">>,
          trigger |-> trigger, capture |-> capture]
    ELSE [result |-> SuccessResult(DeviceFile.name, DeviceFile.path),
          calls |-> <<"trigger_capture", "capture", "get_filepath", "get_name">>,
          trigger |-> trigger, capture |-> capture]

\* a variant that enters the try block whether or not the Camera is connected
capture_unguarded(conn, cam, filename, trigger, capture) ==
    capture_try(cam, filename, trigger, capture)

\* capture_single(filename)
capture_single(conn, cam, filename, trigger, capture) ==
    IF ~conn
    THEN [result |-> FailureResult(filename, "Camera not connected"),
          calls |-> <<>>, trigger |-> NotReached, capture |-> NotReached]
    ELSE capture_try(cam, filename, trigger, capture)

\* no raise leaves capture_single: raised is None on every path
CaptureSingle(filename, trigger, capture) ==
    LET r == capture_single(connected, camera, filename, trigger, capture)
    IN  /\ last' = [op |-> "capture_single", filename |-> filename,
                    trigger |-> r.trigger, capture |-> r.capture, raised |-> None,
                    result |-> r.result, calls |-> r.calls]
        /\ UNCHANGED <<device, port, camera, connected, capabilities, store>>

\* the filename argument
FilenameInputs == {None, "sky_0001"}

(***************************************************************************)
(* Optional values: Absent is Python's None, Some(v) a given value.        *)
(***************************************************************************)
Absent == <<>>

Some(v) == <<v>>

\* Python truthiness of an Optional number / string
TruthyNum(o) == o # Absent /\ o[1] # 0

TruthyStr(o) == o # Absent /\ o[1] # ""

\* o or default
OrNum(o, default) == IF TruthyNum(o) THEN o[1] ELSE default

OrStr(o, default) == IF TruthyStr(o) THEN o[1] ELSE default

(***************************************************************************)
(* Template and TemplateManager.get_template                               *)
(***************************************************************************)
Template(e, a, i, d, q, m) ==
    [exposure |-> e, aperture |-> a, iso |-> i, delay |-> d, quality |-> q,
     max_exposures |-> m]

\* the template create_default_template saves
DefaultTemplate ==
    Template(Some(80), Some(14), Some("auto"), Some(120), Some("raw"), Some(0))

\* Template.to_settings
to_settings(tpl) ==
    CameraSettings(OrNum(tpl.exposure, 80), OrNum(tpl.aperture, 14),
                   OrStr(tpl.iso, "auto"), OrNum(tpl.delay, 120),
                   OrStr(tpl.quality, "raw"), OrNum(tpl.max_exposures, 0))

\* the outcome of a load_template call: the exception raised (None if it
\* returned) and the Template returned
Loaded(raised, tpl) == [raised |-> raised, template |-> tpl]

NoTemplate == Template(Absent, Absent, Absent, Absent, Absent, Absent)

\* a variant without the creation of the default template
get_as_loaded(name, load, created) == load

\* get_template(name): load is the outcome of load_template(name), created
\* that of ensure_default_template() followed by load_template("default")
get_template(name, load, created) ==
    IF load.raised = "FileNotFoundError" /\ name = "default" THEN created ELSE load

\* a call of Template.to_settings
ToSettings(tpl) ==
    /\ last.op = "init"
    /\ last' = [op |-> "to_settings", template |-> tpl, out |-> to_settings(tpl)]
    /\ UNCHANGED <<device, port, camera, connected, capabilities, store>>

\* the templates to_settings is called on: each field absent, zero or empty,
\* or set
TemplateInputs ==
    {Template(e, a, i, d, q, m) :
        e \in {Absent, Some(0), Some(20)}, a \in {Absent, Some(0), Some(20)},
        i \in {Absent, Some(""), Some("400")}, d \in {Absent, Some(0)},
        q \in {Absent, Some("jpeg")}, m \in {Absent, Some(0), Some(3)}}

(***************************************************************************)
(* YAML documents: a mapping from keys to scalars, each scalar a text in   *)
(* plain or quoted style.                                                  *)
(***************************************************************************)
Fields ==
    {"name", "description", "aperture", "exposure", "iso", "delay", "quality",
     "max_exposures", "filename_pattern", "timestamp_format", "temperature_monitoring"}

StrFields == {"description", "iso", "quality", "filename_pattern", "timestamp_format"}

FloatFields == {"aperture", "exposure", "delay"}

\* Template(name=..., ...): the six settings fields and the five others
NamedTemplate(name, description, settings, pattern, format, monitoring) ==
    [name |-> name, description |-> description, aperture |-> settings.aperture,
     exposure |-> settings.exposure, iso |-> settings.iso, delay |-> settings.delay,
     quality |-> settings.quality, max_exposures |-> settings.max_exposures,
     filename_pattern |-> pattern, timestamp_format |-> format,
     temperature_monitoring |-> monitoring]

Node(style, text) == [style |-> style, text |-> text]

\* the floats (in tenths) and the integers templates hold, and their YAML text
FloatValues == {0, 5, 14, 20, 50, 80, 120}

FloatText(x) ==
    CASE x = 0 -> "0.0"
      [] x = 5 -> "0.5"
      [] x = 14 -> "1.4"
      [] x = 20 -> "2.0"
      [] x = 50 -> "5.0"
      [] x = 80 -> "8.0"
      [] x = 120 -> "12.0"

IntValues == {0, 3, 100, 400}

IntText(n) ==
    CASE n = 0 -> "0"
      [] n = 3 -> "3"
      [] n = 100 -> "100"
      [] n = 400 -> "400"

\* the type the YAML resolver gives a plain scalar
Resolves(text) ==
    IF text \in {"null", "", "~"} THEN "null"
    ELSE IF text \in {"true", "false"} THEN "bool"
    ELSE IF \E n \in IntValues : IntText(n) = text THEN "int"
    ELSE IF \E x \in FloatValues : FloatText(x) = text THEN "float"
    ELSE "str"

\* a variant that writes every string in plain style
DumpPlain(s) == Node("plain", s)

\* yaml.dump of a str: quoted when the plain text would resolve to another type
DumpStr(s) == IF Resolves(s) = "str" THEN Node("plain", s) ELSE Node("quoted", s)

\* yaml.dump of the value of one field
DumpField(f, v) ==
    IF f = "name" THEN DumpStr(v)
    ELSE IF v = Absent THEN Node("plain", "null")
    ELSE IF f \in StrFields THEN DumpStr(v[1])
    ELSE IF f \in FloatFields THEN Node("plain", FloatText(v[1]))
    ELSE IF f = "max_exposures" THEN Node("plain", IntText(v[1]))
    ELSE Node("plain", IF v[1] THEN "true" ELSE "false")

\* yaml.dump(template.to_dict()): asdict lists every field
dump(t) == [f \in Fields |-> DumpField(f, t[f])]

\* the int object a str field holds after loading a plain integer
IntObject(text) ==
    CASE text = "0" -> "int(0)"
      [] text = "3" -> "int(3)"
      [] text = "100" -> "int(100)"
      [] text = "400" -> "int(400)"

\* a str object held by a numeric field
NotNumber == -1

\* yaml.safe_load of one scalar, as the value the Template field then holds
LoadField(f, node) ==
    LET ty == IF node.style = "quoted" THEN "str" ELSE Resolves(node.text) IN
    IF f = "name" THEN node.text
    ELSE IF ty = "null" THEN Absent
    ELSE IF f \in StrFields
         THEN Some(IF ty = "int" THEN IntObject(node.text)
                   ELSE IF ty = "str" THEN node.text ELSE "object")
    ELSE IF f \in FloatFields
         THEN Some(IF ty = "float" THEN CHOOSE x \in FloatValues : FloatText(x) = node.text
                   ELSE IF ty = "int"
                        THEN 10 * (CHOOSE n \in IntValues : IntText(n) = node.text)
                   ELSE NotNumber)
    ELSE IF f = "max_exposures"
         THEN Some(IF ty = "int" THEN CHOOSE n \in IntValues : IntText(n) = node.text
                   ELSE NotNumber)
    ELSE Some(ty = "bool" /\ node.text = "true")

(***************************************************************************)
(* The template store: the files of templates_dir by stem, and the files   *)
(* and directories a name reaches as a path of its own (os.path.exists).   *)
(***************************************************************************)
\* the template names, in the order of Python's str comparison
NameOrder == <<"deep", "default", "wide">>

Names == Range(NameOrder)

\* paths outside templates_dir; "deep" and "default" are entries of the
\* working directory that are named as templates are
PathNames == {"deep", "default", "/tmp/night.yml"}

\* Path(path).stem
Stem(path) == IF path = "/tmp/night.yml" THEN "night" ELSE path

File(kind, doc) == [kind |-> kind, doc |-> doc]

NoDoc == [f \in {} |-> Node("plain", "null")]

Missing == File("missing", NoDoc)

Directory == File("dir", NoDoc)

\* a file yaml.safe_load reads as None
EmptyFile == File("empty", NoDoc)

\* a file yaml.safe_load raises YAMLError on
Malformed == File("malformed", NoDoc)

\* a file yaml.safe_load reads as a non-empty list
NotMapping == File("sequence", NoDoc)

Mapping(doc) == File("mapping", doc)

EmptyStore ==
    [dir |-> [n \in Names |-> Missing], paths |-> [q \in PathNames |-> Missing],
     config |-> Missing]

\* Template.from_dict(data) after data['name'] was set to the stem if absent
from_dict(doc, stem) ==
    [f \in Fields |->
        IF f \in DOMAIN doc THEN LoadField(f, doc[f])
        ELSE IF f = "name" THEN stem ELSE Absent]

\* the file load_template(name) opens: the path name if it exists, else
\* templates_dir / name.yml
template_path(st, name) ==
    IF name \in PathNames /\ st.paths[name].kind # "missing" THEN st.paths[name]
    ELSE IF name \in Names THEN st.dir[name] ELSE Missing

\* load_template(name): the exception raised or the Template returned
load_template(st, name) ==
    LET aspath == name \in PathNames /\ st.paths[name].kind # "missing"
        file == template_path(st, name)
    IN  IF file.kind = "missing" THEN Loaded("FileNotFoundError", NoTemplate)
        ELSE IF file.kind = "dir" THEN Loaded("IsADirectoryError", NoTemplate)
        ELSE IF file.kind \in {"empty", "malformed"} THEN Loaded("ValueError", NoTemplate)
        ELSE IF file.kind = "sequence" THEN Loaded("TypeError", NoTemplate)
        ELSE IF ~(DOMAIN file.doc \subseteq Fields) THEN Loaded("TypeError", NoTemplate)
        ELSE Loaded(None, from_dict(file.doc, IF aspath THEN Stem(name) ELSE name))

\* save_template(template): the store afterwards
save_template(st, t) == [st EXCEPT !.dir[t.name] = Mapping(dump(t))]

\* the Template create_default_template builds
DefaultNamed ==
    NamedTemplate("default", Some("Default skycam template for general astrophotography"),
                  DefaultTemplate, Some("SkyImage-{timestamp}"),
                  Some("YYYY-MM-DD_HH:MM:SS"), Some(FALSE))

create_default_template(st) == save_template(st, DefaultNamed)

\* a variant that writes the default template whether or not one is stored
ensure_overwriting(st) == create_default_template(st)

\* ensure_default_template(): the store afterwards
ensure_default_template(st) ==
    IF st.dir["default"].kind = "missing" THEN create_default_template(st) ELSE st

\* a variant that creates the default template for every missing name
get_creating(st, name) ==
    LET load == load_template(st, name)
        creates == load.raised = "FileNotFoundError"
        st1 == IF creates THEN ensure_default_template(st) ELSE st
    IN  [store |-> st1,
         out |-> IF creates THEN load_template(st1, "default") ELSE load]

\* get_template(name) on the store: the store afterwards and the outcome
get_template_from(st, name) ==
    LET load == load_template(st, name)
        creates == load.raised = "FileNotFoundError" /\ name = "default"
        st1 == IF creates THEN ensure_default_template(st) ELSE st
    IN  [store |-> st1,
         out |-> get_template(name, load,
                              IF creates THEN load_template(st1, "default") ELSE load)]

Rank(n) == CHOOSE i \in 1..Len(NameOrder) : NameOrder[i] = n

\* the stems of the *.yml files of templates_dir, in the order glob yields them
glob(st, order) ==
    LET Present(n) == st.dir[n].kind # "missing" IN SelectSeq(order, Present)

\* a variant that returns the stems in the order glob yields them
list_as_found(st, order) == glob(st, order)

\* list_templates(): sorted(templates)
list_templates(st, order) ==
    LET found == glob(st, order)
        ranks == sorted([i \in 1..Len(found) |-> Rank(found[i])])
    IN  [i \in 1..Len(found) |-> NameOrder[ranks[i]]]

CameraVars == <<device, port, camera, connected, capabilities>>

SaveTemplate(t) ==
    /\ store' = save_template(store, t)
    /\ last' = [op |-> "save_template", template |-> t]
    /\ UNCHANGED CameraVars

LoadTemplate(name) ==
    /\ last' = [op |-> "load_template", name |-> name, out |-> load_template(store, name)]
    /\ UNCHANGED <<CameraVars, store>>

GetTemplate(name) ==
    LET r == get_template_from(store, name)
    IN  /\ store' = r.store
        /\ last' = [op |-> "get_template", name |-> name, out |-> r.out]
        /\ UNCHANGED CameraVars

EnsureDefaultTemplate ==
    /\ store' = ensure_default_template(store)
    /\ last' = [op |-> "ensure_default_template"]
    /\ UNCHANGED CameraVars

ListTemplates(order) ==
    /\ last' = [op |-> "list_templates", out |-> list_templates(store, order)]
    /\ UNCHANGED <<CameraVars, store>>

\* the templates saved: under each name, one with a single field set and one
\* whose strings read as other YAML types
SaveInputs ==
    {NamedTemplate(n, Absent, Template(Some(50), Absent, Absent, Absent, Absent, Absent),
                   Absent, Absent, Absent) : n \in Names}
    \cup {NamedTemplate(n, Some("true"), Template(Some(20), Some(14), Some("100"), Some(0),
                                                Some("jpeg"), Some(3)),
                        Some(""), Some("null"), Some(TRUE)) : n \in Names}

\* templates_dir as the program finds it: empty, or holding files a user wrote
InitialDirs ==
    {EmptyStore.dir,
     [EmptyStore.dir EXCEPT !["default"] =
         Mapping([f \in {"exposure", "iso"} |->
                     IF f = "exposure" THEN Node("plain", "2.0") ELSE Node("quoted", "400")])],
     [EmptyStore.dir EXCEPT !["deep"] = Malformed, !["wide"] = EmptyFile],
     [EmptyStore.dir EXCEPT !["deep"] =
         Mapping([f \in {"name", "shutter"} |->
                     IF f = "name" THEN Node("plain", "deep") ELSE Node("plain", "2.0")])],
     [EmptyStore.dir EXCEPT !["default"] = Malformed, !["wide"] = NotMapping]}

\* the paths outside templates_dir as the program finds them
InitialPaths ==
    {EmptyStore.paths,
     [EmptyStore.paths EXCEPT !["/tmp/night.yml"] =
         Mapping([f \in {"name", "aperture"} |->
                     IF f = "name" THEN Node("plain", "file-template")
                     ELSE Node("plain", "2.0")])],
     [EmptyStore.paths EXCEPT !["deep"] = Directory],
     [EmptyStore.paths EXCEPT !["default"] =
         Mapping([f \in {"exposure"} |-> Node("plain", "0.5")])]}

(***************************************************************************)
(* The configuration record (ConfigManager): config_dir/config.yml is the  *)
(* config field of the store.  A Python value is its type and its text.    *)
(***************************************************************************)
Py(type, text) == [type |-> type, text |-> text]

Str(s) == Py("str", s)

\* default_config of load_config
default_config ==
    [k \in {"default_template", "templates_directory", "output_directory",
            "filename_pattern", "timestamp_format", "auto_detect_camera",
            "default_port", "auto_adjust_settings", "warn_on_adjustment",
            "max_retries"} |->
        CASE k = "default_template" -> Str("default")
          [] k = "templates_directory" -> Str("~/.config/skycam/templates")
          [] k = "output_directory" -> Str("~/Pictures/Skycam")
          [] k = "filename_pattern" -> Str("SkyImage-{timestamp}")
          [] k = "timestamp_format" -> Str("YYYY-MM-DD_HH:MM:SS")
          [] k = "default_port" -> Str("")
          [] k = "max_retries" -> Py("int", "3")
          [] OTHER -> Py("bool", "true")]

ConfigKeys == DOMAIN default_config

\* yaml.dump of one value of the config
DumpValue(v) == IF v.type = "str" THEN DumpStr(v.text) ELSE Node("plain", v.text)

\* yaml.safe_load of one scalar of the config
LoadValue(node) ==
    LET ty == IF node.style = "quoted" THEN "str" ELSE Resolves(node.text)
    IN  Py(ty, IF ty = "null" THEN "null" ELSE node.text)

\* save_config(config): the config file afterwards
save_config(config) == Mapping([k \in DOMAIN config |-> DumpValue(config[k])])

NoConfig == [k \in {} |-> Str("")]

ConfigLoaded(raised, out, file) == [raised |-> raised, out |-> out, file |-> file]

\* "Merge with defaults for missing keys"
merge(config) ==
    [k \in DOMAIN config \cup ConfigKeys |->
        IF k \in DOMAIN config THEN config[k] ELSE default_config[k]]

\* a variant that returns the record as persisted
load_unmerged(file) ==
    IF file.kind \in {"missing", "malformed"}
    THEN ConfigLoaded(None, default_config, save_config(default_config))
    ELSE IF file.kind = "sequence" THEN ConfigLoaded("TypeError", NoConfig, file)
    ELSE ConfigLoaded(None, [k \in DOMAIN file.doc |-> LoadValue(file.doc[k])], file)

\* load_config(): the exception raised or the dict returned, and the config
\* file afterwards
load_config(file) ==
    IF file.kind \in {"missing", "malformed"}
    THEN ConfigLoaded(None, default_config, save_config(default_config))
    ELSE IF file.kind = "sequence" THEN ConfigLoaded("TypeError", NoConfig, file)
    ELSE ConfigLoaded(None, merge([k \in DOMAIN file.doc |-> LoadValue(file.doc[k])]),
                      file)

LoadConfig ==
    LET r == load_config(store.config)
    IN  /\ store' = [store EXCEPT !.config = r.file]
        /\ last' = [op |-> "load_config", raised |-> r.raised, out |-> r.out]
        /\ UNCHANGED CameraVars

SaveConfig(config) ==
    /\ store' = [store EXCEPT !.config = save_config(config)]
    /\ last' = [op |-> "save_config", config |-> config]
    /\ UNCHANGED CameraVars

\* the keys the saved dicts choose values for, and their values
SavedValues ==
    [default_template |-> {Str("custom"), Str("true")},
     auto_detect_camera |-> {Py("bool", "false")},
     default_port |-> {Str("usb:001,004"), Str("")},
     max_retries |-> {Py("int", "0"), Py("int", "3")}]

\* the dicts given to save_config: each a choice of values for some of the keys
ConfigInputs ==
    LET values == UNION {SavedValues[k] : k \in DOMAIN SavedValues}
    IN  UNION {{c \in [keys -> values] : \A k \in keys : c[k] \in SavedValues[k]} :
                  keys \in SUBSET DOMAIN SavedValues}

\* config.yml as the program finds it: absent, unparseable, empty, a list,
\* or a mapping a user wrote
InitialConfigs ==
    {Missing, Malformed, EmptyFile, NotMapping,
     Mapping([k \in {"default_template", "output_directory", "auto_detect_camera"} |->
                 CASE k = "default_template" -> Node("plain", "custom")
                   [] k = "output_directory" -> Node("plain", "/custom/output")
                   [] OTHER -> Node("plain", "false")]),
     Mapping([k \in {"default_port", "max_retries", "theme"} |->
                 CASE k = "default_port" -> Node("plain", "")
                   [] k = "max_retries" -> Node("quoted", "3")
                   [] OTHER -> Node("plain", "dark")])}

(***************************************************************************)
(* The start command (skycam_cli.cli.start)                                *)
(***************************************************************************)
Args(template, exposure, aperture, delay, iso, max_exposures, p, dry_run) ==
    [template |-> template, exposure |-> exposure, aperture |-> aperture,
     delay |-> delay, iso |-> iso, max_exposures |-> max_exposures, port |-> p,
     dry_run |-> dry_run]

\* "Override with command line options"
override(settings, args) ==
    [settings EXCEPT
        !.exposure = IF TruthyNum(args.exposure) THEN args.exposure[1] ELSE @,
        !.aperture = IF TruthyNum(args.aperture) THEN args.aperture[1] ELSE @,
        !.delay = IF TruthyNum(args.delay) THEN args.delay[1] ELSE @,
        !.iso = IF TruthyStr(args.iso) THEN args.iso[1] ELSE @,
        !.max_exposures = IF args.max_exposures # Absent THEN args.max_exposures[1] ELSE @]

\* a variant without the return of the dry run
start_undried(args, load, created) ==
    LET named == TruthyStr(args.template)
        got == get_template(IF named THEN args.template[1] ELSE "default", load, created)
    IN  IF named /\ got.raised # None
        THEN [returned |-> TRUE, settings |-> DefaultSettings]
        ELSE [returned |-> FALSE,
              settings |-> override(IF got.raised = None THEN to_settings(got.template)
                                    ELSE DefaultSettings, args)]

\* the statements of start before the device scope: whether start returns
\* there, and the settings it goes on with
start_settings(args, load, created) ==
    LET named == TruthyStr(args.template)
        got == get_template(IF named THEN args.template[1] ELSE "default", load, created)
    IN  IF named /\ got.raised # None
        THEN [returned |-> TRUE, settings |-> DefaultSettings]
        ELSE [returned |-> args.dry_run,
              settings |-> override(IF got.raised = None THEN to_settings(got.template)
                                    ELSE DefaultSettings, args)]

\* a second port, and the (port, name) pairs autodetect() lists
OtherPort == "usb:001,005"

CameraList(detect) ==
    CASE detect = "found" -> <<<<Port, "Canon EOS 5D">>>>
      [] detect = "found two" -> <<<<Port, "Canon EOS 5D">>, <<OtherPort, "Nikon D850">>>>
      [] detect = "found two, other first" ->
            <<<<OtherPort, "Nikon D850">>, <<Port, "Canon EOS 5D">>>>
      [] OTHER -> <<>>

\* a variant that returns the ports in the order of their names
detect_sorted(detect) ==
    IF detect \in {"found two", "found two, other first"} THEN <<Port, OtherPort>>
    ELSE IF detect = "found" THEN <<Port>> ELSE <<>>

\* Camera.detect_cameras: the ports returned; None and an exception of the
\* probe give the empty list
detect_cameras(detect) ==
    LET camera_list == CameraList(detect)
    IN  [i \in 1..Len(camera_list) |-> camera_list[i][1]]

\* the outcomes of autodetect() in a call of detect_cameras
ProbeOutcomes == DetectOutcomes \cup {"found two", "found two, other first", "RuntimeError"}

DetectCameras(detect) ==
    /\ last' = [op |-> "detect_cameras", detect |-> detect, raised |-> None,
                out |-> detect_cameras(detect)]
    /\ UNCHANGED <<device, port, camera, connected, capabilities, store>>

\* Camera.get_camera_info: the dict returned; counts are the lengths added
\* when capabilities is set
get_camera_info(conn, p, caps) ==
    [connected |-> conn, port |-> p, has_capabilities |-> caps # NoneObj,
     counts |-> IF caps # NoneObj
                THEN <<Len(caps.exposure_times), Len(caps.apertures), Len(caps.iso_values)>>
                ELSE <<>>]

GetCameraInfo ==
    /\ last' = [op |-> "get_camera_info",
                out |-> get_camera_info(connected, port, capabilities)]
    /\ UNCHANGED <<device, port, camera, connected, capabilities, store>>

\* Camera.__exit__: leaving a with block calls disconnect()
ContextExit(exit) ==
    LET r == disconnect(camera, connected, exit)
    IN  /\ camera' = r.camera
        /\ connected' = r.connected
        /\ last' = [op |-> "__exit__", exit |-> r.exit]
        /\ UNCHANGED <<device, port, capabilities, store>>

\* the except clause of start that handles an exception of class cls
start_except(cls) ==
    IF IsInstance(cls, "CameraNotFoundError") THEN "Camera not found"
    ELSE IF IsInstance(cls, "CameraConnectionError") THEN "Camera connection error"
    ELSE "Unexpected error"

\* the command lines start is given
ArgsInputs ==
    {Args(t, e, a, Absent, i, m, p, d) :
        t \in {Absent, Some("deep")}, e \in {Absent, Some(0), Some(20)},
        a \in {Absent, Some(20)}, i \in {Absent, Some("400")},
        m \in {Absent, Some(0), Some(3)}, p \in {Absent, Some(Port)}, d \in BOOLEAN}

\* the outcomes of load_template
LoadOutcomes ==
    {Loaded("FileNotFoundError", NoTemplate), Loaded("ValueError", NoTemplate),
     Loaded(None, DefaultTemplate),
     Loaded(None, Template(Some(20), Absent, Some("400"), Absent, Absent, Some(3)))}

\* the outcomes of creating and loading the default template
CreatedOutcomes == {Loaded("PermissionError", NoTemplate), Loaded(None, DefaultTemplate)}

\* the progress of one run of start: pc is the statement it is at, inits the
\* number of init() calls that returned, exits the number of exit() calls
\* made, results the success flags of the CaptureResults produced, raised the
\* exception in flight, handled the except clause of start that caught it,
\* stopped whether the stop command has been run meanwhile
Run(pc, settings, inits, exits, results, raised) ==
    [op |-> "start", pc |-> pc, settings |-> settings, inits |-> inits,
     exits |-> exits, results |-> results, raised |-> raised, stopped |-> FALSE,
     handled |-> IF pc = "done" /\ raised # None THEN start_except(raised) ELSE None]

At(pc) == last.op = "start" /\ last.pc = pc

\* the statements of start up to "with Camera(port=port)"
StartSettings(args, load, created) ==
    LET r == start_settings(args, load, created)
        name == IF TruthyStr(args.template) THEN args.template[1] ELSE "default"
    IN  /\ last.op = "init"
        /\ IF load.raised = "FileNotFoundError" /\ name = "default"
           THEN created \in CreatedOutcomes
           ELSE created = Loaded(None, NoTemplate)
        /\ last' = [Run(IF r.returned THEN "done" ELSE "camera", r.settings, 0, 0, <<>>,
                        None)
                    EXCEPT !.op = "start_settings"] @@
                   [args |-> args, load |-> load, created |-> created]
        /\ UNCHANGED <<device, port, camera, connected, capabilities, store>>

\* Camera(port=port): raises ImportError when gphoto2 is not installed
StartCamera(gp) ==
    /\ last.op = "start_settings" /\ last.pc = "camera"
    /\ last' = IF gp THEN Run(IF TruthyStr(last.args.port) THEN "connect" ELSE "detect",
                              last.settings, 0, 0, <<>>, None)
               ELSE Run("done", last.settings, 0, 0, <<>>, "ImportError")
    /\ port' = IF gp /\ last.args.port # Absent THEN last.args.port[1] ELSE None
    /\ camera' = None
    /\ connected' = FALSE
    /\ capabilities' = NoneObj
    /\ UNCHANGED <<device, store>>

\* "if not port": camera.detect_cameras(), and the return on an empty list
StartDetect(detect) ==
    /\ At("detect")
    /\ last' = [last EXCEPT !.pc = IF detect_cameras(detect) = <<>> THEN "exit"
                                   ELSE "connect"]
    /\ UNCHANGED <<device, port, camera, connected, capabilities, store>>

\* camera.connect() and camera.get_camera_info()
StartConnect(detect, init) ==
    LET r == connect_try(port, camera, connected, TRUE, detect, init)
    IN  /\ At("connect")
        /\ port' = r.port
        /\ camera' = r.camera
        /\ connected' = r.connected
        /\ capabilities' = IF r.queried THEN query_capabilities(device) ELSE capabilities
        /\ last' = IF r.exc = NoExc
                   THEN [last EXCEPT !.pc = "validate", !.inits = @ + 1]
                   ELSE [last EXCEPT !.pc = "exit", !.raised = connect_except(r.exc)]
        /\ UNCHANGED <<device, store>>

\* validated_settings, warnings = camera.validate_settings(settings)
StartValidate ==
    LET r == validate_settings(capabilities, last.settings)
    IN  /\ At("validate")
        /\ last' = IF r.raised = None
                   THEN [last EXCEPT !.pc = "configure", !.settings = r.validated]
                   ELSE [last EXCEPT !.pc = "exit", !.raised = r.raised]
        /\ UNCHANGED <<device, port, camera, connected, capabilities, store>>

\* config_warnings = camera.configure_camera(validated_settings)
StartConfigure(rejects) ==
    LET r == configure_camera(connected, camera, device, last.settings, rejects)
    IN  /\ At("configure")
        /\ rejects \subseteq r.reached
        /\ last' = IF r.raised = None
                   THEN [last EXCEPT !.pc = "capture"]
                   ELSE [last EXCEPT !.pc = "exit", !.raised = r.raised]
        /\ UNCHANGED <<device, port, camera, connected, capabilities, store>>

\* result = camera.capture_single(): the one capture start makes
StartCapture(trigger, capture) ==
    LET r == capture_single(connected, camera, None, trigger, capture)
    IN  /\ At("capture")
        /\ last' = [last EXCEPT !.pc = "exit",
                                !.results = Append(@, r.result.success)]
        /\ UNCHANGED <<device, port, camera, connected, capabilities, store>>

\* leaving the with block: Camera.__exit__ calls disconnect(), then the
\* exception in flight reaches an except clause of start and start returns
StartExit(exit) ==
    LET r == disconnect(camera, connected, exit)
    IN  /\ At("exit")
        /\ camera' = r.camera
        /\ connected' = r.connected
        /\ last' = [Run("done", last.settings, last.inits,
                        IF r.exit = NotReached THEN last.exits ELSE last.exits + 1,
                        last.results, last.raised)
                    EXCEPT !.stopped = last.stopped]
        /\ UNCHANGED <<device, port, capabilities, store>>

\* the stop command, run while start is in its device scope: it prints two
\* lines and writes nothing start reads ("TODO: Implement actual stop logic")
Stop(session_id) ==
    /\ last.op = "start"
    /\ last.pc # "done"
    /\ ~last.stopped
    /\ last' = [last EXCEPT !.stopped = TRUE]
    /\ UNCHANGED <<device, port, camera, connected, capabilities, store>>

\* the session_id argument of stop
SessionIds == {None, "session-1"}

(***************************************************************************)
(* Calls of validate_settings                                              *)
(***************************************************************************)
\* a variant that fills in default capabilities when none were queried
ValidateLazily(settings) ==
    /\ last' = [op |-> "validate_settings", settings |-> settings,
                out |-> validate_settings(capabilities, settings)]
    /\ capabilities' = IF capabilities = NoneObj
                       THEN CameraCapabilities(DefaultExposureTimes, DefaultApertures,
                                               DefaultIsoValues)
                       ELSE capabilities
    /\ UNCHANGED <<device, port, camera, connected, store>>

ValidateSettings(settings) ==
    /\ last' = [op |-> "validate_settings", settings |-> settings,
                out |-> validate_settings(capabilities, settings)]
    /\ UNCHANGED <<device, port, camera, connected, capabilities, store>>

\* the settings a caller asks for
RequestValues == {10 * i : i \in 1..(MaxVal + 1)}

RequestIso == {"auto", "100", "400"}

RequestRest == {<<120, "raw", 0>>, <<5, "jpeg", 3>>}

SettingsInputs ==
    {CameraSettings(e, a, i, r[1], r[2], r[3]) :
        e \in RequestValues, a \in RequestValues, i \in RequestIso, r \in RequestRest}

\* camera.capabilities = CameraCapabilities(...), as a caller of the library
\* (the test suite) assigns it
RECURSIVE Perms(_)
Perms(S) ==
    IF S = {} THEN {<<>>}
    ELSE UNION {{<<x>> \o q : q \in Perms(S \ {x})} : x \in S}

AssignedLists == UNION {Perms(S) : S \in ValueSets}

AssignCapabilities(caps) ==
    /\ capabilities' = caps
    /\ last' = [op |-> "assign"]
    /\ UNCHANGED <<device, port, camera, connected, store>>

(***************************************************************************)
(* Specifications                                                          *)
(***************************************************************************)
\* Camera(port): the state after construction
Init ==
    /\ store = EmptyStore
    /\ device \in Devices
    /\ port \in {None, Port}
    /\ camera = None
    /\ connected = FALSE
    /\ capabilities = NoneObj
    /\ last = [op |-> "init"]

Next ==
    \/ \E a \in BOOLEAN, d \in DetectOutcomes,
          i \in InitOutcomes : Connect(a, d, i)
    \/ \E x \in ExitOutcomes : Disconnect(x)
    \/ ValidateSettings(DefaultSettings)

\* the Camera's life cycle against any device
Spec == Init /\ [][Next]_vars

\* the device no query succeeds on, attached while no port is open
NoDevice == [shutterspeed |-> Unsupported, fnumber |-> Unsupported, iso |-> Unsupported]

\* validate_settings on a new Camera and on a Camera connected to any device
InitValidate ==
    /\ store = EmptyStore
    /\ port = Port
    /\ last = [op |-> "init"]
    /\ \/ /\ device = NoDevice
          /\ camera = None
          /\ connected = FALSE
          /\ capabilities = NoneObj
       \/ /\ device \in Devices
          /\ camera = "initialised"
          /\ connected = TRUE
          /\ capabilities = query_capabilities(device)

\* validate_settings leaves the Camera as it found it, so one call is made
\* from each Camera state
NextValidate == last.op = "init" /\ \E s \in SettingsInputs : ValidateSettings(s)

SpecValidate == InitValidate /\ [][NextValidate]_vars

\* validate_settings on a Camera whose capabilities were assigned directly
InitAssigned ==
    /\ store = EmptyStore
    /\ device = NoDevice
    /\ port \in {None, Port}
    /\ camera = None
    /\ connected = FALSE
    /\ capabilities = NoneObj
    /\ last = [op |-> "init"]

NextAssigned ==
    \/ /\ last.op = "init"
       /\ \E e \in AssignedLists, a \in AssignedLists :
             AssignCapabilities(CameraCapabilities(e, a, <<"auto", "100">>))
    \/ /\ last.op = "assign"
       /\ \E s \in SettingsInputs : ValidateSettings(s)

SpecAssigned == InitAssigned /\ [][NextAssigned]_vars

\* the devices of a capture session: each axis unsupported, unparseable or
\* listing MaxChoices values
FullListings(k) ==
    {Report(TRUE, Listing(k, S)) : S \in {T \in ValueSets : Cardinality(T) = MaxChoices}}

SessionDevices ==
    {d \in Devices :
        /\ d.shutterspeed \in {Unsupported,
                               Report(TRUE, <<Choice("sec", 10), Choice("frac", 30)>>)}
                              \cup FullListings("sec")
        /\ d.fnumber \in {Unsupported,
                          Report(TRUE, <<Choice("fnum", 10), Choice("fword", 0)>>),
                          Report(TRUE, Listing("fnum", {10, 20}))}
        /\ d.iso \in {Unsupported, Report(TRUE, <<"100", "200">>),
                      Report(TRUE, <<"auto", "100">>)}}

InitSession ==
    /\ store = EmptyStore
    /\ device \in SessionDevices
    /\ port \in {None, Port}
    /\ camera = None
    /\ connected = FALSE
    /\ capabilities = NoneObj
    /\ last = [op |-> "init"]

NextSession ==
    \/ \E a \in BOOLEAN, d \in DetectOutcomes,
          i \in InitOutcomes : Connect(a, d, i)
    \/ \E x \in ExitOutcomes : Disconnect(x)
    \/ \E s \in ConfigureInputs, rejects \in SUBSET Widgets : ConfigureCamera(s, rejects)
    \/ \E f \in FilenameInputs, t \in TriggerOutcomes,
          c \in CaptureOutcomes : CaptureSingle(f, t, c)
    \/ \E s \in ConfigureInputs : ValidateSettings(s)
    \/ \E d \in ProbeOutcomes : DetectCameras(d)
    \/ GetCameraInfo
    \/ \E x \in ExitOutcomes : ContextExit(x)

\* configuring and capturing at any point of the Camera's life cycle
SpecSession == InitSession /\ [][NextSession]_vars

\* the devices start is run against: those of a capture session, and one
\* whose exposure widget lists no choice
StartDevices ==
    SessionDevices
    \cup {d \in Devices : /\ d.shutterspeed = Report(TRUE, <<>>)
                          /\ d.fnumber = Unsupported
                          /\ d.iso = Unsupported}

\* before start has made its Camera, the attributes read as a new Camera's
InitStart ==
    /\ store = EmptyStore
    /\ device \in StartDevices
    /\ port = None
    /\ camera = None
    /\ connected = FALSE
    /\ capabilities = NoneObj
    /\ last = [op |-> "init"]

NextStart ==
    \/ \E args \in ArgsInputs, load \in LoadOutcomes,
          created \in CreatedOutcomes \cup {Loaded(None, NoTemplate)} :
          StartSettings(args, load, created)
    \/ \E gp \in BOOLEAN : StartCamera(gp)
    \/ \E d \in DetectOutcomes : StartDetect(d)
    \/ \E d \in DetectOutcomes, i \in InitOutcomes :
          StartConnect(d, i)
    \/ StartValidate
    \/ \E rejects \in SUBSET Widgets : StartConfigure(rejects)
    \/ \E tr \in TriggerOutcomes, c \in CaptureOutcomes :
          StartCapture(tr, c)
    \/ \E x \in ExitOutcomes : StartExit(x)
    \/ \E id \in SessionIds : Stop(id)

\* one run of the start command, with the stop command run at any point of it
SpecStart == InitStart /\ [][NextStart]_vars

\* Template.to_settings on any template; no Camera takes part
InitTemplate ==
    /\ store = EmptyStore
    /\ device = NoDevice
    /\ port = None
    /\ camera = None
    /\ connected = FALSE
    /\ capabilities = NoneObj
    /\ last = [op |-> "init"]

NextTemplate == \E tpl \in TemplateInputs : ToSettings(tpl)

SpecTemplate == InitTemplate /\ [][NextTemplate]_vars

\* a TemplateManager on its directory; no Camera takes part
InitStore ==
    /\ device = NoDevice
    /\ port = None
    /\ camera = None
    /\ connected = FALSE
    /\ capabilities = NoneObj
    /\ store \in [dir : InitialDirs, paths : InitialPaths, config : {Missing}]
    /\ last = [op |-> "init"]

NextStore ==
    \/ \E t \in SaveInputs : SaveTemplate(t)
    \/ \E n \in Names \cup PathNames : LoadTemplate(n)
    \/ \E n \in Names \cup PathNames : GetTemplate(n)
    \/ EnsureDefaultTemplate
    \/ \E order \in Perms(Names) : ListTemplates(order)

\* any sequence of calls on a TemplateManager
SpecStore == InitStore /\ [][NextStore]_vars

\* a ConfigManager on its directory; no Camera takes part
InitConfig ==
    /\ device = NoDevice
    /\ port = None
    /\ camera = None
    /\ connected = FALSE
    /\ capabilities = NoneObj
    /\ store \in [dir : {EmptyStore.dir}, paths : {EmptyStore.paths}, config : InitialConfigs]
    /\ last = [op |-> "init"]

NextConfig ==
    \/ LoadConfig
    \/ \E config \in ConfigInputs : SaveConfig(config)

\* any sequence of calls on a ConfigManager
SpecConfig == InitConfig /\ [][NextConfig]_vars

(***************************************************************************)
(* Properties of validate_settings                                         *)
(***************************************************************************)
Validated == last.op = "validate_settings"

\* the call returned (did not raise)
Returned == Validated /\ last.out.raised = None

\* the call returned and the Camera knew its capabilities
Reconciled == Returned /\ capabilities # NoneObj

WarningsOn(axis) ==
    {i \in 1..Len(last.out.warnings) : last.out.warnings[i].axis = axis}

\* axis left as requested, with no warning
Kept(axis) ==
    /\ last.out.validated[axis] = last.settings[axis]
    /\ WarningsOn(axis) = {}

\* C1 part: the value returned for the axis is legal, and it is the requested
\* one, with no warning, when that is legal
MemberOf(axis, legal) ==
    /\ last.out.validated[axis] \in Range(legal)
    /\ last.settings[axis] \in Range(legal) => Kept(axis)

\* C1: whenever validate_settings returns for a Camera with capabilities, the
\* returned exposure is a member of the legal exposure list and the returned
\* aperture a member of the legal aperture list; a requested value that is
\* already a member is returned as it is, with no warning for its axis.
C1_ReturnsLegalValue ==
    Reconciled =>
        /\ MemberOf("exposure", capabilities.exposure_times)
        /\ MemberOf("aperture", capabilities.apertures)

C1_Witness ==
    /\ Reconciled
    /\ last.settings.exposure \in Range(capabilities.exposure_times)
    /\ last.settings.aperture \notin Range(capabilities.apertures)
    /\ Len(capabilities.apertures) > 1

\* C2 part: a requested value that is not legal is replaced by a legal value
\* at minimal distance, with exactly one warning naming both
ClosestOf(axis, legal) ==
    last.settings[axis] \notin Range(legal) =>
        /\ \A x \in Range(legal) :
              Abs(last.out.validated[axis] - last.settings[axis])
                  <= Abs(x - last.settings[axis])
        /\ Cardinality(WarningsOn(axis)) = 1
        /\ \A i \in WarningsOn(axis) :
              /\ last.out.warnings[i].from = last.settings[axis]
              /\ last.out.warnings[i].to = last.out.validated[axis]

\* C2: whenever validate_settings returns and the requested exposure
\* (aperture) is not in the legal list, the returned value is at least as
\* close to the requested one as every legal value, and exactly one warning
\* for that axis is emitted, naming the requested and the substituted value.
C2_ClosestWithOneWarning ==
    Reconciled =>
        /\ ClosestOf("exposure", capabilities.exposure_times)
        /\ ClosestOf("aperture", capabilities.apertures)

C2_Witness ==
    /\ Reconciled
    /\ last.settings.exposure \notin Range(capabilities.exposure_times)
    /\ Len(capabilities.exposure_times) > 1
    /\ last.out.validated.exposure # capabilities.exposure_times[1]
    /\ last.settings.aperture \notin Range(capabilities.apertures)

\* the lowest of the legal values at minimal distance from v
LowestClosest(legal, v) ==
    CHOOSE x \in Range(legal) :
        \A y \in Range(legal) :
            \/ Abs(x - v) < Abs(y - v)
            \/ Abs(x - v) = Abs(y - v) /\ x <= y

\* C3: whenever two legal values are equally close to the requested exposure
\* (aperture), validate_settings selects the lower one, for every list the
\* Camera may hold, in any order: the returned value is the lowest of the
\* closest legal values.
C3_LowerOnTie ==
    Reconciled =>
        /\ last.out.validated.exposure =
              LowestClosest(capabilities.exposure_times, last.settings.exposure)
        /\ last.out.validated.aperture =
              LowestClosest(capabilities.apertures, last.settings.aperture)

\* C4: validate_settings never changes the ISO: the returned settings' iso is
\* the requested iso, whatever the capabilities.
C4_IsoUnchanged == Returned => last.out.validated.iso = last.settings.iso

C4_Witness ==
    /\ Reconciled
    /\ last.settings.iso = "400"
    /\ WarningsOn("iso") # {}

\* C5: validate_settings emits no ISO warning when the requested iso is
\* "auto" (in the device's list or not) or is in the device's list, and
\* exactly one otherwise.
C5_AutoNeverWarned ==
    Reconciled =>
        Cardinality(WarningsOn("iso")) =
            IF last.settings.iso = "auto" \/ In(last.settings.iso, capabilities.iso_values)
            THEN 0 ELSE 1

\* C6: validate_settings returns delay, quality and max_exposures as
\* requested, and the object the caller passed in holds after the call what
\* it held before, whether the call returns or raises.
C6_PassThroughAndArgUntouched ==
    Validated =>
        /\ last.out.arg = last.settings
        /\ Returned =>
              /\ last.out.validated.delay = last.settings.delay
              /\ last.out.validated.quality = last.settings.quality
              /\ last.out.validated.max_exposures = last.settings.max_exposures

C6_Witness ==
    /\ Reconciled
    /\ last.out.validated.exposure # last.settings.exposure
    /\ last.out.validated.aperture # last.settings.aperture
    /\ last.settings.delay = 5

AxisRank(axis) == CASE axis = "exposure" -> 1 [] axis = "aperture" -> 2 [] axis = "iso" -> 3

\* C7: validate_settings emits at most one warning per axis and at most 3 in
\* all, in the order exposure, aperture, iso; with no capabilities known it
\* returns the very settings passed in, with no warning.
C7_WarningsBounded ==
    Validated =>
        /\ Len(last.out.warnings) <= 3
        /\ \A i \in 1..Len(last.out.warnings) :
              last.out.warnings[i].axis \in {"exposure", "aperture", "iso"}
        /\ \A i \in 1..Len(last.out.warnings) : \A j \in 1..Len(last.out.warnings) :
              i < j => AxisRank(last.out.warnings[i].axis) < AxisRank(last.out.warnings[j].axis)
        /\ capabilities = NoneObj =>
              /\ last.out.raised = None
              /\ last.out.same
              /\ last.out.validated = last.settings
              /\ last.out.warnings = <<>>

C7_Witness == Reconciled /\ Len(last.out.warnings) = 3

\* C8: when the legal exposure list (or the legal aperture list) is empty,
\* validate_settings does not raise and leaves that axis as requested, with
\* no warning.
C8_EmptyListNoOp ==
    Validated /\ capabilities # NoneObj =>
        /\ capabilities.exposure_times = <<>> =>
              last.out.raised = None /\ Kept("exposure")
        /\ capabilities.apertures = <<>> =>
              last.out.raised = None /\ Kept("aperture")

(***************************************************************************)
(* Properties of connect                                                   *)
(***************************************************************************)
\* C9: connect with no port given and detection yielding no device raises
\* CameraNotFoundError (not CameraConnectionError).
C9_NoDeviceIsNotFound ==
    /\ last.op = "connect"
    /\ last.port = None
    /\ last.auto_detect
    /\ last.detect \in {"None", "empty"}
    => last.raised = "CameraNotFoundError"

\* C10: whenever connect raises, the Camera is left with connected False and
\* no device handle.
C10_FailedConnectTornDown ==
    last.op = "connect" /\ last.raised # None => ~connected /\ camera = None

(***************************************************************************)
(* Properties of disconnect and of the capability query                    *)
(***************************************************************************)
\* C12: after disconnect() returns, from any prior state and whether or not
\* the device's exit call fails, connected is False and the camera handle is
\* None.
C12_DisconnectedAfterDisconnect ==
    last.op = "disconnect" => ~connected /\ camera = None

\* connect returned normally
ConnectedNow == last.op = "connect" /\ last.raised = None

\* reading the widget fails: get_config raises, or a choice carries the
\* marker and is no number
ReadFails(report, bad) ==
    \/ ~report.ok
    \/ \E i \in 1..Len(report.choices) : report.choices[i].kind = bad

\* the list holds exactly the values of the choices of this kind, each as
\* often as the device lists it
HoldsReported(list, report, kind) ==
    /\ Range(list) =
          {report.choices[i].v :
              i \in {j \in 1..Len(report.choices) : report.choices[j].kind = kind}}
    /\ Len(list) =
          Cardinality({j \in 1..Len(report.choices) : report.choices[j].kind = kind})

NonEmptyLabel(c) == c # ""

\* C13: after a connect, each axis whose read fails holds its default list
\* and each axis whose read succeeds holds the values the device reported,
\* whatever happens on the other axes.
C13_FailureIsolatedPerAxis ==
    ConnectedNow =>
        /\ IF ReadFails(device.shutterspeed, "frac")
           THEN capabilities.exposure_times = DefaultExposureTimes
           ELSE HoldsReported(capabilities.exposure_times, device.shutterspeed, "sec")
        /\ IF ReadFails(device.fnumber, "fword")
           THEN capabilities.apertures = DefaultApertures
           ELSE HoldsReported(capabilities.apertures, device.fnumber, "fnum")
        /\ IF ~device.iso.ok
           THEN capabilities.iso_values = DefaultIsoValues
           ELSE capabilities.iso_values = SelectSeq(device.iso.choices, NonEmptyLabel)

C13_Witness ==
    /\ ConnectedNow
    /\ ReadFails(device.shutterspeed, "frac")
    /\ ~ReadFails(device.fnumber, "fword")
    /\ Len(capabilities.apertures) = 2
    /\ device.iso.ok

\* C14: if the device's init succeeds, connect returns normally with
\* connected True and capabilities populated, whatever axes of the capability
\* query fail.
C14_InitOkConnects ==
    last.op = "connect" /\ last.init = "ok" =>
        /\ last.raised = None
        /\ connected
        /\ capabilities # NoneObj

C14_Witness ==
    /\ last.op = "connect"
    /\ last.init = "ok"
    /\ device = NoDevice
    /\ connected

Ascending(s) == \A i \in 1..Len(s) : \A j \in 1..Len(s) : i < j => s[i] <= s[j]

\* C15: after any successful connect, exposure_times and apertures are in
\* ascending order, and an ISO list that was defaulted is exactly auto, 100,
\* 200, 400, 800, 1600, 3200, 6400.
C15_SortedAndCanonicalIso ==
    ConnectedNow =>
        /\ Ascending(capabilities.exposure_times)
        /\ Ascending(capabilities.apertures)
        /\ ~device.iso.ok =>
              capabilities.iso_values =
                  <<"auto", "100", "200", "400", "800", "1600", "3200", "6400">>

C15_Witness ==
    /\ ConnectedNow
    /\ Len(device.shutterspeed.choices) = 2
    /\ Len(capabilities.exposure_times) = 2
    /\ ReadFails(device.fnumber, "fword")
    /\ ~device.iso.ok

(***************************************************************************)
(* Properties of configure_camera and capture_single                       *)
(***************************************************************************)
\* the attempt on an axis fails by that axis's own device calls alone
ExposureFails(cam, dev, rejects) ==
    cam = None \/ ReadFails(dev.shutterspeed, "frac") \/ "shutterspeed" \in rejects

ApertureFails(cam, dev, rejects) ==
    cam = None \/ ReadFails(dev.fnumber, "fword") \/ "f-number" \in rejects

IsoFails(cam, dev, iso, rejects) ==
    iso # "auto" /\ (cam = None \/ ~dev.iso.ok \/ "iso" \in rejects)

QualityFails(cam, rejects) == cam = None \/ "imagequality" \in rejects

\* C16: configure_camera on a connected Camera raises nothing and leaves
\* connected as it was; each of the four axes is attempted whatever happened
\* on the others: an axis whose own device calls fail adds exactly one warning
\* (in the order exposure, aperture, ISO, image quality) and every other axis
\* is set on the device
C16_ConfigureNeverRaises ==
    [][(last'.op = "configure_camera" /\ connected) =>
          LET o == last'.out
              r == last'.rejects
              s == last'.settings
          IN  /\ connected' = connected
              /\ o.raised = None
              /\ o.warnings =
                    WarnIf(ExposureFails(camera, device, r), "exposure")
                    \o WarnIf(ApertureFails(camera, device, r), "aperture")
                    \o WarnIf(IsoFails(camera, device, s.iso, r), "ISO")
                    \o WarnIf(QualityFails(camera, r), "image quality")
              /\ ~ExposureFails(camera, device, r) => o.exposure # NotSet
              /\ ~ApertureFails(camera, device, r) => o.aperture # NotSet
              /\ (s.iso # "auto" /\ ~IsoFails(camera, device, s.iso, r)) => o.iso = s.iso
              /\ ~QualityFails(camera, r) => o.quality = RawQuality]_vars

\* a connected Camera whose exposure and ISO attempts failed while aperture
\* and image quality were set
C16_Witness ==
    /\ last.op = "configure_camera"
    /\ connected
    /\ last.out.warnings = <<"exposure", "ISO">>
    /\ last.out.aperture # NotSet
    /\ last.out.quality = RawQuality

\* capture_single found the Camera not connected: nothing raised, a failure
\* result with the fixed message, and no device call
NotConnectedRefused ==
    ~connected =>
        /\ ~last.result.success
        /\ last.result.error_message = "Camera not connected"
        /\ last.calls = <<>>

\* the capture call or the reading of the captured file failed
CaptureFails == camera = None \/ last.capture \in {"GP_ERROR_IO", "AttributeError"}

\* C17 as stated: capture_single raises nothing; any device failure during
\* the capture, a failing trigger_capture included, yields success = False
\* with an error message; not connected yields "Camera not connected" with no
\* device call
C17_AnyDeviceFailureFails ==
    last.op = "capture_single" =>
        /\ last.raised = None
        /\ NotConnectedRefused
        /\ (connected /\ (CaptureFails \/ last.trigger = "GP_ERROR_NOT_SUPPORTED")) =>
              ~last.result.success /\ last.result.error_message # None

\* C17 amended: capture_single raises nothing; a failure of the capture call
\* or of reading the captured file yields success = False with an error
\* message, while a failure of trigger_capture alone is ignored and the
\* capture succeeds; not connected yields "Camera not connected" with no
\* device call
C17_CaptureFailureFails ==
    last.op = "capture_single" =>
        /\ last.raised = None
        /\ NotConnectedRefused
        /\ (connected /\ CaptureFails) =>
              ~last.result.success /\ last.result.error_message # None
        /\ (connected /\ ~CaptureFails) => last.result.success

\* a connected Camera whose capture call failed after trigger_capture failed
C17_Witness ==
    /\ last.op = "capture_single"
    /\ connected
    /\ last.trigger = "GP_ERROR_NOT_SUPPORTED"
    /\ last.capture = "GP_ERROR_IO"
    /\ ~last.result.success

\* C18: the CaptureResult of capture_single is well-formed: a success carries
\* the device's file name and path and no error message; a failure carries an
\* error message and neither file name nor path
C18_ResultWellFormed ==
    last.op = "capture_single" =>
        LET r == last.result IN
        /\ r.success =>
              /\ r.filename = DeviceFile.name
              /\ r.filepath = DeviceFile.path
              /\ r.error_message = None
        /\ ~r.success =>
              /\ r.error_message # None
              /\ r.filename = None
              /\ r.filepath = None

\* a failed capture that was given a filename
C18_Witness ==
    /\ last.op = "capture_single"
    /\ last.filename # None
    /\ connected
    /\ ~last.result.success
    /\ last.calls # <<>>

(***************************************************************************)
(* Properties of the start command                                         *)
(***************************************************************************)
\* start has returned
StartReturned == last.op \in {"start_settings", "start"} /\ last.pc = "done"

\* start has returned after its capture stage
SessionOver == StartReturned /\ last.results # <<>>

\* C11: in the device scope of start, whatever detection, connect, validate,
\* configure and capture do, exit() is never invoked twice, and once start
\* has returned after an init() that succeeded, exit() was invoked exactly once
C11_ExitOncePerInit ==
    last.op = "start" =>
        /\ last.exits <= 1
        /\ (last.pc = "done" /\ last.inits >= 1) => last.exits = 1

\* start returned through an except clause after init() had succeeded
C11_Witness ==
    /\ last.op = "start"
    /\ last.pc = "done"
    /\ last.inits = 1
    /\ last.exits = 1
    /\ last.raised = "ValueError"
    /\ last.handled = "Unexpected error"

\* C19: a session with max_exposures = 3 produces exactly 3 CaptureResults
\* whether or not an attempt fails: a failed capture does not end the session
C19_FailedCaptureKeepsSession ==
    (SessionOver /\ last.settings.max_exposures = 3) =>
        /\ Len(last.results) = 3
        /\ \A i \in 1..Len(last.results) : ~last.results[i] => i = 3 \/ Len(last.results) > i

\* C20: a session with max_exposures = n > 0 ends after exactly n capture
\* attempts, and a session with max_exposures = 0 does not end by its count
C20_AttemptsMatchMaxExposures ==
    SessionOver =>
        /\ last.settings.max_exposures > 0
        /\ Len(last.results) = last.settings.max_exposures

\* C21: once the stop command has been run, start begins no new capture
\* (cancellation is observed before a capture is started)
C21_NoCaptureAfterStop ==
    [][(last.op = "start" /\ last.stopped) =>
          last'.results = last.results]_vars

\* start has resolved its settings (it did not return on a template error)
Resolved ==
    /\ last.op = "start_settings"
    /\ ~(TruthyStr(last.args.template)
         /\ get_template(last.args.template[1], last.load, last.created).raised # None)

\* no override is given on the command line
NoOverrides ==
    /\ last.args.exposure = Absent
    /\ last.args.aperture = Absent
    /\ last.args.delay = Absent
    /\ last.args.iso = Absent
    /\ last.args.max_exposures = Absent

\* C22: with no template named and no override given, start resolves the hard
\* defaults, whatever the template store holds
C22_NoTemplateNoOverridesIsDefaults ==
    (last.op = "start_settings" /\ last.args.template = Absent /\ NoOverrides) =>
        last.settings = DefaultSettings

\* the settings of the template layer of a run that resolved its settings
TemplateLayer ==
    LET got == get_template(IF TruthyStr(last.args.template) THEN last.args.template[1]
                            ELSE "default", last.load, last.created)
    IN  IF got.raised = None THEN to_settings(got.template) ELSE DefaultSettings

\* the value a field resolves to when overrides take precedence
Precedence(o, layer) == IF o = Absent THEN layer ELSE o[1]

\* C23: every override given, zero included, is the value of its field in
\* the resolved settings; every field without an override keeps the value of
\* the template layer
C23_OverridesTakePrecedence ==
    Resolved =>
        /\ last.settings.exposure = Precedence(last.args.exposure, TemplateLayer.exposure)
        /\ last.settings.aperture = Precedence(last.args.aperture, TemplateLayer.aperture)
        /\ last.settings.delay = Precedence(last.args.delay, TemplateLayer.delay)
        /\ last.settings.iso = Precedence(last.args.iso, TemplateLayer.iso)
        /\ last.settings.max_exposures =
              Precedence(last.args.max_exposures, TemplateLayer.max_exposures)
        /\ last.settings.quality = TemplateLayer.quality

\* C24: to_settings holds, for each field, the template's value when the
\* field is present (zero and empty values included) and the hard default
\* when it is absent
C24_SubsetOverlay ==
    last.op = "to_settings" =>
        /\ last.out.exposure = Precedence(last.template.exposure, DefaultSettings.exposure)
        /\ last.out.aperture = Precedence(last.template.aperture, DefaultSettings.aperture)
        /\ last.out.iso = Precedence(last.template.iso, DefaultSettings.iso)
        /\ last.out.delay = Precedence(last.template.delay, DefaultSettings.delay)
        /\ last.out.quality = Precedence(last.template.quality, DefaultSettings.quality)
        /\ last.out.max_exposures =
              Precedence(last.template.max_exposures, DefaultSettings.max_exposures)

\* C25: given a template name other than "default" with no record in the
\* store, start goes on (it does not return before its device scope unless
\* --dry-run is given) with the hard defaults and the overrides on top
C25_MissingTemplateFallsBack ==
    (/\ last.op = "start_settings"
     /\ TruthyStr(last.args.template)
     /\ last.args.template[1] # "default"
     /\ last.load.raised = "FileNotFoundError") =>
        /\ last.settings = override(DefaultSettings, last.args)
        /\ last.pc = "done" => last.args.dry_run

(***************************************************************************)
(* Properties of the template store                                        *)
(***************************************************************************)
\* templates_dir holds a file for the name
Stored(st, n) == n \in Names /\ st.dir[n].kind # "missing"

\* the name is an existing path of its own, which load_template opens
\* instead of the file of templates_dir
IsPath(st, n) == n \in PathNames /\ st.paths[n].kind # "missing"

\* C26: ensure_default_template called while a default record exists, written
\* by a user or created by an earlier call, leaves the template store as it
\* was
C26_EnsureDefaultIdempotent ==
    [][(last'.op = "ensure_default_template" /\ Stored(store, "default")) =>
          store' = store]_vars

\* ensure_default_template has run on a default record it did not create
C26_Witness ==
    /\ last.op = "ensure_default_template"
    /\ Stored(store, "default")
    /\ store.dir["default"] # Mapping(dump(DefaultNamed))

\* templates_dir holding the created default template and nothing else
OnlyDefault == [EmptyStore.dir EXCEPT !["default"] = Mapping(dump(DefaultNamed))]

\* C27 as stated: on an empty template store get_template("default") creates,
\* persists and returns the canonical default template, and a list_templates
\* call that follows returns exactly ["default"]
C27_DefaultCreatedOnEmptyStore ==
    [][/\ (last'.op = "get_template" /\ last'.name = "default"
           /\ store.dir = EmptyStore.dir) =>
              /\ last'.out = Loaded(None, DefaultNamed)
              /\ store'.dir = OnlyDefault
       /\ (last.op = "get_template" /\ last.name = "default" /\ store.dir = OnlyDefault
           /\ last'.op = "list_templates") =>
              last'.out = <<"default">>]_vars

\* C27 amended: the same, provided the working directory has no entry named
\* "default" (load_template opens a name that is an existing path as that path)
C27_DefaultCreatedUnlessPath ==
    [][/\ (last'.op = "get_template" /\ last'.name = "default"
           /\ store.dir = EmptyStore.dir /\ ~IsPath(store, "default")) =>
              /\ last'.out = Loaded(None, DefaultNamed)
              /\ store'.dir = OnlyDefault
       /\ (last.op = "get_template" /\ last.name = "default" /\ store.dir = OnlyDefault
           /\ last'.op = "list_templates") =>
              last'.out = <<"default">>]_vars

\* get_template("default") has created and returned the default template
C27_Witness ==
    /\ last.op = "get_template"
    /\ last.name = "default"
    /\ ~IsPath(store, "default")
    /\ store.dir = OnlyDefault
    /\ last.out = Loaded(None, DefaultNamed)

\* C28 as stated: load_template and get_template of a name other than
\* "default" with no stored record raise FileNotFoundError and leave the
\* template store unchanged
C28_MissingNameNotFound ==
    [][(/\ last'.op \in {"load_template", "get_template"}
        /\ last'.name \in Names \ {"default"}
        /\ ~Stored(store, last'.name)) =>
          /\ last'.out.raised = "FileNotFoundError"
          /\ store' = store]_vars

\* C28 amended: the same for a name that is not an existing path of its own
C28_MissingNameNotFoundUnlessPath ==
    [][(/\ last'.op \in {"load_template", "get_template"}
        /\ last'.name # "default"
        /\ ~Stored(store, last'.name)
        /\ ~IsPath(store, last'.name)) =>
          /\ last'.out.raised = "FileNotFoundError"
          /\ store' = store]_vars

\* get_template of a missing name raised while no default record was stored
C28_Witness ==
    /\ last.op = "get_template"
    /\ last.name = "wide"
    /\ ~Stored(store, "wide")
    /\ ~Stored(store, "default")
    /\ last.out.raised = "FileNotFoundError"

\* a save writes the record of its name and no other; no other call changes a
\* record that is stored
OneRecordPerName ==
    /\ last'.op = "save_template" =>
          /\ store'.dir[last'.template.name] = Mapping(dump(last'.template))
          /\ \A n \in Names \ {last'.template.name} : store'.dir[n] = store.dir[n]
    /\ last'.op # "save_template" =>
          \A n \in Names : Stored(store, n) => store'.dir[n] = store.dir[n]

\* C29 as stated: the record stored under a name is the one of the most
\* recent save_template under that name, and load_template and get_template of
\* the name return a Template equal to the saved one in every field
C29_SaveLoadRoundTrip ==
    [][/\ OneRecordPerName
       /\ \A t \in SaveInputs :
             (/\ last'.op \in {"load_template", "get_template"}
              /\ last'.name = t.name
              /\ store.dir[t.name] = Mapping(dump(t))) =>
                last'.out = Loaded(None, t)]_vars

\* C29 amended: the same for a name that is not an existing path of its own
C29_SaveLoadRoundTripUnlessPath ==
    [][/\ OneRecordPerName
       /\ \A t \in SaveInputs :
             (/\ last'.op \in {"load_template", "get_template"}
              /\ last'.name = t.name
              /\ store.dir[t.name] = Mapping(dump(t))
              /\ ~IsPath(store, t.name)) =>
                last'.out = Loaded(None, t)]_vars

\* a template whose strings read as other YAML types was saved and loaded
C29_Witness ==
    /\ last.op = "load_template"
    /\ last.name = "deep"
    /\ ~IsPath(store, "deep")
    /\ last.out.raised = None
    /\ last.out.template.iso = Some("100")
    /\ store.dir["deep"] = Mapping(dump(last.out.template))

\* C30: list_templates returns exactly the names of the files stored in
\* templates_dir, each once, in ascending order
C30_ListIsSortedNames ==
    last.op = "list_templates" =>
        /\ Range(last.out) = {n \in Names : Stored(store, n)}
        /\ Len(last.out) = Cardinality({n \in Names : Stored(store, n)})
        /\ \A i, j \in 1..Len(last.out) : i < j => Rank(last.out[i]) < Rank(last.out[j])

\* three names were listed
C30_Witness ==
    /\ last.op = "list_templates"
    /\ Len(last.out) = 3

(***************************************************************************)
(* Properties of malformed records and of the configuration record         *)
(***************************************************************************)
\* a record that is unparseable, empty, not a mapping, or that carries a
\* field that is not a Template field
IsMalformed(file) ==
    \/ file.kind \in {"malformed", "empty", "sequence"}
    \/ file.kind = "mapping" /\ ~(DOMAIN file.doc \subseteq Fields)

\* C31: loading a malformed template record, of whatever kind of
\* malformation and also under the name "default", raises ValueError and
\* leaves the template store as it was.
C31_MalformedIsValueError ==
    [][(/\ last'.op \in {"load_template", "get_template"}
        /\ IsMalformed(template_path(store, last'.name))) =>
       (last'.out.raised = "ValueError" /\ store' = store)]_vars

\* C32: load_config on a well-formed persisted record returns every default
\* key; a key of the persisted record has its persisted value (the value
\* save_config was given, when the record was written by save_config) and a
\* missing key has its hard default.
C32_LoadConfigBackfills ==
    [][(last'.op = "load_config" /\ store.config.kind = "mapping") =>
          /\ last'.raised = None
          /\ ConfigKeys \subseteq DOMAIN last'.out
          /\ \A k \in DOMAIN last'.out :
                last'.out[k] = IF k \in DOMAIN store.config.doc
                               THEN LoadValue(store.config.doc[k])
                               ELSE default_config[k]
          /\ last.op = "save_config" =>
                \A k \in DOMAIN last.config : last'.out[k] = last.config[k]]_vars

\* a load_config of a record that save_config wrote with some of the keys
C32_Witness ==
    /\ last.op = "load_config"
    /\ last.raised = None
    /\ store.config.kind = "mapping"
    /\ DOMAIN store.config.doc = {"default_template", "default_port"}
    /\ last.out["default_template"] = Str("true")
    /\ last.out["default_port"] = Str("")
    /\ last.out["max_retries"] = default_config["max_retries"]

\* C33: load_config on an absent or malformed config record (unparseable,
\* or parseable but not a mapping) raises nothing, returns the hard defaults
\* and leaves the hard defaults persisted.
C33_LoadConfigRecovers ==
    [][(/\ last'.op = "load_config"
        /\ store.config.kind \in {"missing", "malformed", "sequence"}) =>
          /\ last'.raised = None
          /\ last'.out = default_config
          /\ store'.config = save_config(default_config)]_vars

(***************************************************************************)
(* Properties of the dry run and of the Camera's attributes                *)
(***************************************************************************)
\* C34: start with --dry-run returns once the settings are resolved, with
\* every template and every set of overrides: the step that resolves them
\* leaves the Camera attributes alone and ends the run, and no step follows
\* it (no Camera is constructed, no detection, no connect).
C34_DryRunOpensNothing ==
    [][/\ (last'.op = "start_settings" /\ last'.args.dry_run) =>
              /\ last'.pc = "done"
              /\ last'.inits = 0
              /\ UNCHANGED <<device, port, camera, connected, capabilities>>
       /\ ~(last.op = "start_settings" /\ last.args.dry_run)]_vars

\* a dry run that loaded a template and applied an override
C34_Witness ==
    /\ last.op = "start_settings"
    /\ last.args.dry_run
    /\ last.args.template = Some("deep")
    /\ last.load.raised = None
    /\ last.args.exposure = Some(20)
    /\ last.settings.exposure = 20
    /\ last.pc = "done"
    /\ camera = None /\ ~connected

\* C35: detect_cameras raises nothing and leaves port, camera, connected and
\* capabilities as they were; it returns the ports of the devices
\* autodetect() lists, in that order, and the empty list when autodetect()
\* returns None, lists nothing or raises.
C35_DetectIsPure ==
    [][last'.op = "detect_cameras" =>
          /\ last'.raised = None
          /\ UNCHANGED <<port, camera, connected, capabilities>>
          /\ last'.out =
                CASE last'.detect = "found" -> <<Port>>
                  [] last'.detect = "found two" -> <<Port, OtherPort>>
                  [] last'.detect = "found two, other first" -> <<OtherPort, Port>>
                  [] OTHER -> <<>>]_vars

\* detect_cameras on a connected Camera with two devices present, the one
\* the Camera is connected to listed second
C35_Witness ==
    /\ last.op = "detect_cameras"
    /\ last.detect = "found two, other first"
    /\ last.out = <<OtherPort, Port>>
    /\ connected
    /\ port = Port

\* the operations that only read the Camera's attributes
Readers ==
    {"validate_settings", "configure_camera", "capture_single", "detect_cameras",
     "get_camera_info"}

\* C36: connected turns True only in a connect whose init() succeeded and
\* turns False only in disconnect (called directly or by __exit__);
\* validate_settings, configure_camera, capture_single, detect_cameras and
\* get_camera_info leave it as it was.
C36_ConnectedFlagTransitions ==
    [][/\ (~connected /\ connected') => (last'.op = "connect" /\ last'.init = "ok")
       /\ (connected /\ ~connected') => last'.op \in {"disconnect", "__exit__"}
       /\ last'.op \in Readers => connected' = connected]_vars

\* a Camera that was connected and is disconnected again by disconnect()
C36_Witness ==
    /\ last.op = "disconnect"
    /\ last.exit = "ok"
    /\ ~connected
    /\ port = Port
    /\ capabilities # NoneObj

\* C37: at most one handle that is initialised and not exited exists: a
\* connect whose init() succeeds finds no handle in self.camera that was
\* initialised and has not been exited.
C37_AtMostOneOpenHandle ==
    [][(last'.op = "connect" /\ last'.init = "ok") => camera # "initialised"]_vars

\* C38: configure_camera on a Camera that is not connected raises CameraError
\* before any device call (no widget is read or set, no warning is made) and
\* leaves the Camera's attributes as they were.
C38_ConfigureRefusedWhenDisconnected ==
    [][(last'.op = "configure_camera" /\ ~connected) =>
          /\ last'.out.raised = "CameraError"
          /\ last'.out.reached = {}
          /\ last'.out.warnings = <<>>
          /\ last'.out.exposure = NotSet /\ last'.out.aperture = NotSet
          /\ last'.out.iso = None /\ last'.out.quality = NotSet
          /\ UNCHANGED <<device, port, camera, connected, capabilities>>]_vars

\* configure_camera on a Camera whose connect failed in init(): it holds a
\* handle and is not connected
C38_Witness ==
    /\ last.op = "configure_camera"
    /\ ~connected
    /\ camera = "created"
    /\ last.out.raised = "CameraError"

\* the choice at 0-based index idx is a closest one to v among the choices
\* of this kind, and the lowest-valued of the closest ones
PicksLowestClosest(report, kind, idx, v) ==
    LET cs == report.choices
        picked == cs[idx + 1]
    IN  /\ picked.kind = kind
        /\ \A i \in 1..Len(cs) :
              cs[i].kind = kind =>
                 \/ Abs(picked.v - v) < Abs(cs[i].v - v)
                 \/ Abs(picked.v - v) = Abs(cs[i].v - v) /\ picked.v <= cs[i].v

\* C39: for exposure and for aperture configure_camera sets the choice whose
\* value is closest to the requested one, and of two equally close choices
\* the lower-valued one, in whatever order the device lists them.
C39_ClosestLowestOnTie ==
    [][(last'.op = "configure_camera" /\ connected) =>
          LET o == last'.out
              s == last'.settings
          IN  /\ (o.exposure # NotSet
                    /\ \E i \in 1..Len(device.shutterspeed.choices) :
                          device.shutterspeed.choices[i].kind = "sec") =>
                     PicksLowestClosest(device.shutterspeed, "sec", o.exposure, s.exposure)
              /\ (o.aperture # NotSet
                    /\ \E i \in 1..Len(device.fnumber.choices) :
                          device.fnumber.choices[i].kind = "fnum") =>
                     PicksLowestClosest(device.fnumber, "fnum", o.aperture, s.aperture)]_vars

\* C40: the capabilities a connect obtained stay as they are for that
\* connection: validate_settings, configure_camera, capture_single,
\* detect_cameras and get_camera_info leave capabilities unchanged, and
\* capabilities changes only in a connect whose init() succeeded, to what
\* that connect queried from the device.
C40_CapabilitiesOnlyByConnect ==
    [][/\ last'.op \in Readers => capabilities' = capabilities
       /\ capabilities' # capabilities =>
             /\ last'.op = "connect"
             /\ last'.init = "ok"
             /\ capabilities' = query_capabilities(device)]_vars

\* a reader called on a connected Camera that holds queried capabilities
C40_Witness ==
    /\ last.op = "validate_settings"
    /\ connected
    /\ capabilities = query_capabilities(device)
    /\ capabilities.exposure_times # DefaultExposureTimes

====
